---------------------------- MODULE Spec2Model ----------------------------
(***************************************************************************)
(* Integrity subsystem of the Public Legal Record System (PLRS):           *)
(* sequence audit of an index, chain-of-custody append and verification,   *)
(* and evidence-bundle verification.                                       *)
(*                                                                         *)
(* JSON values are tagged records, so that values of different Python      *)
(* types can be compared: None is JNull, a str is JStr(<<code points>>),   *)
(* an int is JInt(n), a bool is JBool(b), a float is JFloat(h) standing    *)
(* for the number h/2, a list is JList(<<...>>) and a dict is              *)
(* JDict(<<<<key, value>>, ...>>) in insertion order.                      *)
(***************************************************************************)
EXTENDS Integers, Sequences, FiniteSets, TLC

VARIABLES
    index_data,     \* verify-index / audit-ledger: the loaded index (list of entries)
    errorsIndex,    \* result of verify_index.verify_index_sequence, or NotRun
    errorsLedger,   \* result of verify_ledger_inntegrity.verify_index_sequence, or NotRun
    coc,            \* the chain-of-custody log object (a Python dict)
    origin,         \* "new" (initialised by init_or_load_coc) or "loaded" (read from a file)
    clock,          \* the UTC clock, in whole seconds
    lastCall,       \* the last append_coc_entry call: its arguments, the log before it, its outcome
    appendedBy,     \* per log entry: the (event_id, event_hash) of the call that appended it
    verifyResult,   \* result of verify_chain_of_custody on coc, or NotRun
    bundle,         \* verify-bundle: the bundle file's content, as loaded
    bundleResult,   \* result of verify_bundle.main's dispatch, or NotRun
    untampered,     \* the bundle before its record was changed in the file, or NotRun
    event_index_file,      \* audit-ledger / verify-index: the Event index file
    challenge_index_file,  \* audit-ledger: the Challenge index file
    events_dir,            \* the Event JSON files, by Event_ID
    challenges_dir,        \* the Challenge JSON files, by Challenge_ID
    auditResult,    \* result of verify_ledger_inntegrity.main, or NotRun
    indexResult,    \* result of verify_index.main, or NotRun
    hash_input,     \* hash CLI: the record file, a second record, --algo, --write
    cliResult,      \* result of hash_event.main, or NotRun
    codecResult,    \* the two records encoded and hashed by both modules, or NotRun
    coc_file,       \* export-custody: the custody log file on disk
    procs           \* export-custody: the invocations of main, each at its step

vars == <<index_data, errorsIndex, errorsLedger, coc, origin, clock, lastCall,
          appendedBy, verifyResult, bundle, bundleResult, untampered,
          event_index_file, challenge_index_file, events_dir, challenges_dir,
          auditResult, indexResult, hash_input, cliResult, codecResult,
          coc_file, procs>>

seqVars    == <<index_data, errorsIndex, errorsLedger>>
cocVars    == <<coc, origin, clock, lastCall, appendedBy, verifyResult>>
bundleVars == <<bundle, bundleResult, untampered>>
ledgerVars == <<event_index_file, challenge_index_file, events_dir, challenges_dir,
                auditResult, indexResult>>
hashVars   == <<hash_input, cliResult, codecResult>>
fileVars   == <<coc_file, procs>>

\* Value of a variable that the specification at hand does not use.
Idle == [idle |-> TRUE]
\* Value of a result variable before the operation has run.
NotRun == [notrun |-> TRUE]

-----------------------------------------------------------------------------
(* JSON / Python values *)

JNull      == [null |-> TRUE]
JStr(s)    == [str |-> s]
JInt(n)    == [int |-> n]
JBool(b)   == [bool |-> b]
JFloat(h)  == [float |-> h]
JList(l)   == [list |-> l]
JDict(kvs) == [dict |-> kvs]

IsNull(v)  == "null" \in DOMAIN v
IsStr(v)   == "str" \in DOMAIN v
IsInt(v)   == "int" \in DOMAIN v
IsBool(v)  == "bool" \in DOMAIN v
IsFloat(v) == "float" \in DOMAIN v
IsList(v)  == "list" \in DOMAIN v
IsDict(v)  == "dict" \in DOMAIN v

\* Python truthiness of the values used here (`not x`, `x or None`).
Truthy(v) ==
    CASE IsNull(v)  -> FALSE
      [] IsStr(v)   -> Len(v.str) > 0
      [] IsInt(v)   -> v.int # 0
      [] IsBool(v)  -> v.bool
      [] IsFloat(v) -> v.float # 0
      [] IsList(v)  -> Len(v.list) > 0
      [] IsDict(v)  -> Len(v.dict) > 0

\* Python == on the values used here: numbers (int, bool, float) compare by
\* value across their types, everything else by type and content.
IsNumeric(v) == IsInt(v) \/ IsBool(v) \/ IsFloat(v)
Halves(v) ==
    CASE IsInt(v)   -> 2 * v.int
      [] IsBool(v)  -> IF v.bool THEN 2 ELSE 0
      [] IsFloat(v) -> v.float
PyEq(a, b) ==
    IF IsNumeric(a) /\ IsNumeric(b) THEN Halves(a) = Halves(b) ELSE a = b

-----------------------------------------------------------------------------
(* Strings as sequences of code points *)

Char0 == 48
Char9 == 57
CharT == 84
CharZ == 90

IsDigit(c) == Char0 <= c /\ c <= Char9

\* Python str comparison: lexicographic by code point.
RECURSIVE StrLt(_, _)
StrLt(s, t) ==
    IF t = <<>> THEN FALSE
    ELSE IF s = <<>> THEN TRUE
    ELSE IF Head(s) # Head(t) THEN Head(s) < Head(t)
    ELSE StrLt(Tail(s), Tail(t))
StrLe(s, t) == s = t \/ StrLt(s, t)

\* Decimal digits of a natural number, zero-padded to at least w characters.
RECURSIVE Digits(_, _)
Digits(n, w) ==
    IF n < 10 /\ w <= 1 THEN <<Char0 + n>>
    ELSE Digits(n \div 10, w - 1) \o <<Char0 + (n % 10)>>

\* int(s) for a str: the value of a non-empty run of decimal digits. The strings
\* drawn here carry no sign, blanks or underscores; anything else is a ValueError.
RECURSIVE DigitsValue(_)
DigitsValue(s) ==
    IF s = <<>> THEN 0 ELSE 10 * DigitsValue(SubSeq(s, 1, Len(s) - 1)) + (s[Len(s)] - Char0)
IsDigitString(s) == Len(s) > 0 /\ \A i \in 1..Len(s) : IsDigit(s[i])

-----------------------------------------------------------------------------
(* Sequence audit: verify_index_sequence, in its two implementations *)

MaxSeq == 4      \* largest Index_Seq drawn
MaxIndexLen == 3 \* longest index drawn

\* entry.get("Index_Seq"): a missing key reads as None.
EntrySeq(entry) == entry.Index_Seq

SeqFinding(pos, expected, seq) == [pos |-> pos, expected |-> expected, found |-> seq]

\* isinstance(seq, int): bool is a subclass of int.
IsInstanceInt(v) == IsInt(v) \/ IsBool(v)

\* int(seq): [ok |-> TRUE, val |-> n], or [ok |-> FALSE] when it raises.
PyInt(v) ==
    CASE IsInt(v)   -> [ok |-> TRUE, val |-> v.int]
      [] IsBool(v)  -> [ok |-> TRUE, val |-> IF v.bool THEN 1 ELSE 0]
      [] IsFloat(v) -> [ok |-> TRUE, val |-> v.float \div 2]
      [] IsStr(v)   -> IF IsDigitString(v.str)
                       THEN [ok |-> TRUE, val |-> DigitsValue(v.str)]
                       ELSE [ok |-> FALSE]
      [] OTHER      -> [ok |-> FALSE]

\* verify_index.py line 53: expected = seq if isinstance(seq, int) else expected
ResyncIsInstance(seq, expected) ==
    IF IsInstanceInt(seq) THEN Halves(seq) \div 2 ELSE expected

\* verify_ledger_inntegrity.py lines 64-67: try: expected = int(seq) / except: pass
ResyncIntCall(seq, expected) ==
    IF PyInt(seq).ok THEN PyInt(seq).val ELSE expected

\* One iteration of the loop of verify_index.py; st = [expected, errors].
NoResyncStep(st, pos, entry) ==
    LET seq == EntrySeq(entry) IN
    IF ~PyEq(seq, JInt(st.expected))
    THEN [expected |-> st.expected + 1,
          errors   |-> Append(st.errors, SeqFinding(pos, st.expected, seq))]
    ELSE [expected |-> st.expected + 1, errors |-> st.errors]

IndexSeqStep(st, pos, entry) ==
    LET seq == EntrySeq(entry) IN
    IF ~PyEq(seq, JInt(st.expected))
    THEN [expected |-> ResyncIsInstance(seq, st.expected) + 1,
          errors   |-> Append(st.errors, SeqFinding(pos, st.expected, seq))]
    ELSE [expected |-> st.expected + 1, errors |-> st.errors]

\* One iteration of the loop of verify_ledger_inntegrity.py.
LedgerSeqStep(st, pos, entry) ==
    LET seq == EntrySeq(entry) IN
    IF ~PyEq(seq, JInt(st.expected))
    THEN [expected |-> ResyncIntCall(seq, st.expected) + 1,
          errors   |-> Append(st.errors, SeqFinding(pos, st.expected, seq))]
    ELSE [expected |-> st.expected + 1, errors |-> st.errors]

SeqStart == [expected |-> 1, errors |-> <<>>]

RECURSIVE IndexSeqLoop(_, _)
IndexSeqLoop(data, n) ==
    IF n = 0 THEN SeqStart ELSE IndexSeqStep(IndexSeqLoop(data, n - 1), n, data[n])

RECURSIVE LedgerSeqLoop(_, _)
LedgerSeqLoop(data, n) ==
    IF n = 0 THEN SeqStart ELSE LedgerSeqStep(LedgerSeqLoop(data, n - 1), n, data[n])

verify_index_sequence(data) == IndexSeqLoop(data, Len(data)).errors
ledger_verify_index_sequence(data) == LedgerSeqLoop(data, Len(data)).errors

\* Index_Seq values an index file can hold: integers, and what JSON also allows.
StrTwo == <<50>>    \* "2"
StrX   == <<120>>   \* "x"
SeqValues ==
    {JInt(n) : n \in 1..MaxSeq}
    \cup {JNull, JBool(TRUE), JStr(StrTwo), JStr(StrX), JFloat(2), JFloat(5)}

IndexEntries == [Index_Seq : SeqValues]

RECURSIVE SeqsUpTo(_, _)
SeqsUpTo(S, n) ==
    IF n = 0 THEN {<<>>}
    ELSE LET shorter == SeqsUpTo(S, n - 1) IN
         shorter \cup {Append(s, x) : s \in {t \in shorter : Len(t) = n - 1}, x \in S}

InitSeq ==
    /\ index_data \in SeqsUpTo(IndexEntries, MaxIndexLen)
    /\ errorsIndex = NotRun
    /\ errorsLedger = NotRun
    /\ hash_input = Idle /\ cliResult = Idle /\ codecResult = Idle
    /\ coc_file = Idle /\ procs = Idle
    /\ coc = Idle /\ origin = Idle /\ clock = Idle /\ lastCall = Idle
    /\ appendedBy = Idle /\ verifyResult = Idle
    /\ bundle = Idle /\ bundleResult = Idle /\ untampered = Idle
    /\ event_index_file = Idle /\ challenge_index_file = Idle
    /\ events_dir = Idle /\ challenges_dir = Idle
    /\ auditResult = Idle /\ indexResult = Idle

\* verify_index.py main, lines 146-148.
RunVerifyIndex ==
    /\ errorsIndex = NotRun
    /\ errorsIndex' = [errors |-> verify_index_sequence(index_data)]
    /\ UNCHANGED <<index_data, errorsLedger, cocVars, bundleVars, ledgerVars, hashVars, fileVars>>

\* verify_ledger_inntegrity.py verify_event_index, line 79.
RunVerifyLedger ==
    /\ errorsLedger = NotRun
    /\ errorsLedger' = [errors |-> ledger_verify_index_sequence(index_data)]
    /\ UNCHANGED <<index_data, errorsIndex, cocVars, bundleVars, ledgerVars, hashVars, fileVars>>

NextSeq == RunVerifyIndex \/ RunVerifyLedger

SpecSeq == InitSeq /\ [][NextSeq]_vars

-----------------------------------------------------------------------------
(* Sequence audit: what the audit is required to report *)

Ran(r) == "errors" \in DOMAIN r

AllInts(data) == \A i \in 1..Len(data) : IsInt(EntrySeq(data[i]))

\* The value the audit compares entry i against when every Index_Seq is an integer.
PrevPlusOne(data, i) == IF i = 1 THEN 1 ELSE EntrySeq(data[i - 1]).int + 1

FlaggedPositions(errors) == {errors[k].pos : k \in 1..Len(errors)}

GapFindings(data, errors) ==
    /\ \A i \in 1..Len(data) :
           (i \in FlaggedPositions(errors)) <=> (EntrySeq(data[i]).int # PrevPlusOne(data, i))
    /\ Cardinality(FlaggedPositions(errors)) = Len(errors)
    /\ \A k \in 1..Len(errors) :
           /\ errors[k].expected = PrevPlusOne(data, errors[k].pos)
           /\ errors[k].found = EntrySeq(data[errors[k].pos])
    /\ \A k \in 1..Len(errors) - 1 : errors[k].pos < errors[k + 1].pos

\* C1: over an index whose Index_Seq values are all integers, both implementations
\* of verify_index_sequence report entry i exactly when its Index_Seq differs from
\* the previous entry's Index_Seq plus 1 (from 1 for the first entry), once, with
\* that value as the expected one; so one gap is reported once and does not cascade.
C1_GapReportedOnce ==
    AllInts(index_data) =>
        /\ Ran(errorsIndex) => GapFindings(index_data, errorsIndex.errors)
        /\ Ran(errorsLedger) => GapFindings(index_data, errorsLedger.errors)

IndexOf(seqs) == [i \in 1..Len(seqs) |-> [Index_Seq |-> JInt(seqs[i])]]

\* Index_Seq = [1,3,4] audited by both implementations: one finding, expected 2, found 3.
C1_Witness ==
    /\ index_data = IndexOf(<<1, 3, 4>>)
    /\ Ran(errorsIndex) /\ Ran(errorsLedger)
    /\ errorsIndex.errors = <<SeqFinding(2, 2, JInt(3))>>
    /\ errorsLedger.errors = <<SeqFinding(2, 2, JInt(3))>>

\* The JSON number n: the integer n, or the float of the same value.
IsNumber(v, n) == v = JInt(n) \/ v = JFloat(2 * n)

Gapless(data) == \A i \in 1..Len(data) : IsNumber(EntrySeq(data[i]), i)

\* C2: the audit returns no finding exactly when the Index_Seq values, in list
\* order, are the numbers 1, 2, ..., n.
C2_NoFindingIffGapless ==
    /\ Ran(errorsIndex) => ((errorsIndex.errors = <<>>) <=> Gapless(index_data))
    /\ Ran(errorsLedger) => ((errorsLedger.errors = <<>>) <=> Gapless(index_data))

-----------------------------------------------------------------------------
(* Chain of custody: export_chain_of_custody.py *)

ClockStart == 59   \* first clock reading drawn, in seconds after midnight
MaxTicks == 1      \* clock readings drawn after the first
MaxAppends == 3    \* entries appended to one log

CharColon == 58

\* The strings drawn for identifiers.
StrE1 == <<69, 49>>              \* "E1"
StrE2 == <<69, 50>>              \* "E2"
StrH1 == <<72, 49>>              \* "H1"
StrH2 == <<72, 50>>              \* "H2"
StrB1 == <<66, 49>>              \* "B1"
StrB2 == <<66, 50>>              \* "B2"
StrAlice == <<97>>               \* "a"
StrClerk == <<99>>               \* "c"
StrCreated == <<67>>             \* "C"
StrLA == <<76, 65>>              \* "LA"
StrVersion == <<49, 46, 48>>     \* "1.0"
StrDate == <<50, 48, 50, 53, 45, 48, 49, 45, 49, 50>>   \* "2025-01-12"

\* datetime.now(timezone.utc).isoformat(timespec="seconds").replace("+00:00", "Z")
\* for the clock reading t, in seconds after midnight of one day:
\* YYYY-MM-DD "T" HH ":" MM ":" SS "Z".
UtcNow(t) ==
    StrDate \o <<CharT>> \o Digits(t \div 3600, 2) \o <<CharColon>>
            \o Digits((t \div 60) % 60, 2) \o <<CharColon>> \o Digits(t % 60, 2)
            \o <<CharZ>>

\* init_or_load_coc, the file absent: lines 59-66.
NewCoc ==
    [CoC_Version          |-> JStr(StrVersion),
     Event_ID             |-> JNull,
     Event_Hash           |-> JNull,
     Evidence_Bundle_File |-> JNull,
     Chain_Of_Custody     |-> JList(<<>>)]

CocEntry(ts, holder, role, action, location, notes) ==
    [Entry_Timestamp_UTC |-> ts,
     Holder_Name         |-> holder,
     Holder_Role         |-> role,
     Action              |-> action,
     Location            |-> location,
     Notes               |-> notes]

\* `x or None` (lines 110-111).
OrNone(v) == IF Truthy(v) THEN v ELSE JNull

\* Outcome of a step of append_coc_entry: the log as the step leaves it, and the
\* error it raised ("" for none).
Outcome(c, raised) == [coc |-> c, raised |-> raised]

\* A binding that assigns before it compares: the log is changed although the call fails.
BindEventIdAssignFirst(c, event_id) ==
    IF IsNull(c.Event_ID) \/ PyEq(c.Event_ID, event_id)
    THEN Outcome([c EXCEPT !.Event_ID = event_id], "")
    ELSE Outcome([c EXCEPT !.Event_ID = event_id], "RecordIdentityMismatch")

\* Lines 84-90.
BindEventId(c, event_id) ==
    IF IsNull(c.Event_ID) THEN Outcome([c EXCEPT !.Event_ID = event_id], "")
    ELSE IF ~PyEq(c.Event_ID, event_id) THEN Outcome(c, "RecordIdentityMismatch")
    ELSE Outcome(c, "")

\* A binding that accepts any hash: the log is extended for another version of the record.
BindEventHashUnchecked(c, event_hash) ==
    IF IsNull(c.Event_Hash) THEN Outcome([c EXCEPT !.Event_Hash = event_hash], "")
    ELSE Outcome(c, "")

\* Lines 92-98.
BindEventHash(c, event_hash) ==
    IF IsNull(c.Event_Hash) THEN Outcome([c EXCEPT !.Event_Hash = event_hash], "")
    ELSE IF ~PyEq(c.Event_Hash, event_hash) THEN Outcome(c, "HashIdentityMismatch")
    ELSE Outcome(c, "")

\* A binding that takes the bundle file of every call.
BindBundleFileOverwrite(c, bundle_file) == [c EXCEPT !.Evidence_Bundle_File = bundle_file]

\* Lines 100-101.
BindBundleFile(c, bundle_file) ==
    IF IsNull(c.Evidence_Bundle_File)
    THEN [c EXCEPT !.Evidence_Bundle_File = bundle_file]
    ELSE c

\* Lines 103-114; now is the clock reading.
AppendEntry(c, now, holder_name, holder_role, action, location, notes) ==
    [c EXCEPT !.Chain_Of_Custody =
        JList(Append(c.Chain_Of_Custody.list,
                     CocEntry(JStr(UtcNow(now)), holder_name, holder_role, action,
                              OrNone(location), OrNone(notes))))]

\* append_coc_entry (lines 69-114): the dict is changed in place, so what a step
\* has assigned stays assigned when a later step raises.
append_coc_entry(c, event_id, event_hash, bundle_file, holder_name, holder_role, action, location, notes, now) ==
    LET s1 == BindEventId(c, event_id) IN
    IF s1.raised # "" THEN s1
    ELSE LET s2 == BindEventHash(s1.coc, event_hash) IN
         IF s2.raised # "" THEN s2
         ELSE Outcome(AppendEntry(BindBundleFile(s2.coc, bundle_file), now, holder_name,
                                  holder_role, action, location, notes), "")

-----------------------------------------------------------------------------
(* Chain of custody: verify_chain_of_custody.py *)

MaxCustodyLen == 3   \* longest hand-made log drawn for verification

EndsWith(s, c) == Len(s) > 0 /\ s[Len(s)] = c
Contains(s, c) == \E i \in 1..Len(s) : s[i] = c

\* A check that leaves out the date/time separator.
is_valid_utc_z_suffix_only(ts) == IsStr(ts) /\ EndsWith(ts.str, CharZ)

\* Lines 38-47.
is_valid_utc_z(ts) == IsStr(ts) /\ EndsWith(ts.str, CharZ) /\ Contains(ts.str, CharT)

\* `not isinstance(x, str) or not x` (lines 57, 61, 83, 87, 91).
MissingStr(v) == ~IsStr(v) \/ ~Truthy(v)

\* An entry of the list is a dict when it has the entry's keys; entry.get of
\* anything else raises AttributeError.
IsEntryDict(e) == "Entry_Timestamp_UTC" \in DOMAIN e

\* Python <= is defined between two str and between two numbers; between any
\* other pair of the values drawn it raises TypeError.
Comparable(a, b) == (IsStr(a) /\ IsStr(b)) \/ (IsNumeric(a) /\ IsNumeric(b))
PyLe(a, b) == IF IsStr(a) THEN StrLe(a.str, b.str) ELSE Halves(a) <= Halves(b)

CocFinding(kind, i) == [kind |-> kind, entry |-> i]

\* A tracker that stays on the last accepted timestamp.
KeepLastTsOnViolation(last_ts, ts, violated) == IF violated THEN last_ts ELSE ts

\* Line 102: last_ts = ts, whether or not the entry passed.
AdvanceLastTs(last_ts, ts, violated) == ts

\* Lines 72-93: the findings of one entry's own fields, in the order they are written.
EntryFieldFindings(entry, i) ==
    (IF ~is_valid_utc_z(entry.Entry_Timestamp_UTC) THEN <<CocFinding("Timestamp", i)>> ELSE <<>>)
    \o (IF MissingStr(entry.Holder_Name) THEN <<CocFinding("Holder_Name", i)>> ELSE <<>>)
    \o (IF MissingStr(entry.Holder_Role) THEN <<CocFinding("Holder_Role", i)>> ELSE <<>>)
    \o (IF MissingStr(entry.Action) THEN <<CocFinding("Action", i)>> ELSE <<>>)

\* One iteration of the loop of lines 71-102. st = [ok, last_ts, findings, crashed,
\* scanned]; crashed is set when the iteration raises, which ends the function.
VerifyEntryStep(st, i, entry) ==
    IF st.crashed THEN st
    ELSE IF ~IsEntryDict(entry) THEN [st EXCEPT !.crashed = TRUE]
    ELSE
        LET ts     == entry.Entry_Timestamp_UTC
            own    == EntryFieldFindings(entry, i)
            after  == [st EXCEPT !.findings = st.findings \o own,
                                 !.ok = st.ok /\ own = <<>>]
        IN  IF IsNull(st.last_ts)
            THEN [after EXCEPT !.last_ts = AdvanceLastTs(st.last_ts, ts, FALSE),
                               !.scanned = i]
            ELSE IF ~Comparable(ts, st.last_ts)
            THEN [after EXCEPT !.crashed = TRUE]
            ELSE IF PyLe(ts, st.last_ts)
            THEN [after EXCEPT !.findings = after.findings \o <<CocFinding("Ordering", i)>>,
                               !.ok = FALSE,
                               !.last_ts = AdvanceLastTs(st.last_ts, ts, TRUE),
                               !.scanned = i]
            ELSE [after EXCEPT !.last_ts = AdvanceLastTs(st.last_ts, ts, FALSE),
                               !.scanned = i]

\* Lines 53-63: the checks of the top-level bindings.
BindingFindings(c) ==
    (IF MissingStr(c.Event_ID) THEN <<CocFinding("Event_ID", 0)>> ELSE <<>>)
    \o (IF MissingStr(c.Event_Hash) THEN <<CocFinding("Event_Hash", 0)>> ELSE <<>>)

RECURSIVE VerifyLoop(_, _, _)
VerifyLoop(start, entries, n) ==
    IF n = 0 THEN start ELSE VerifyEntryStep(VerifyLoop(start, entries, n - 1), n, entries[n])

\* verify_chain_of_custody (lines 50-107). ok is the returned value; crashed says
\* that no value was returned because an exception left the function; aborted
\* says that the function returned at line 67; scanned is the last entry whose
\* iteration ran to its end.
verify_chain_of_custody(c) ==
    LET top == BindingFindings(c) IN
    IF ~IsList(c.Chain_Of_Custody)
    THEN [ok |-> FALSE, crashed |-> FALSE, aborted |-> TRUE, scanned |-> 0,
          findings |-> top \o <<CocFinding("Chain_Of_Custody", 0)>>]
    ELSE LET st == VerifyLoop([ok |-> top = <<>>, last_ts |-> JNull, findings |-> top,
                               crashed |-> FALSE, scanned |-> 0],
                              c.Chain_Of_Custody.list, Len(c.Chain_Of_Custody.list))
         IN  [ok |-> st.ok /\ ~st.crashed, crashed |-> st.crashed, aborted |-> FALSE,
              scanned |-> st.scanned, findings |-> st.findings]

-----------------------------------------------------------------------------
(* Chain of custody: the append tool at work on one log *)

LoadedMark == [loaded |-> TRUE]

GoodEntry(ts) ==
    CocEntry(ts, JStr(StrAlice), JStr(StrClerk), JStr(StrCreated), JNull, JNull)

\* Logs that init_or_load_coc accepts from an existing file (lines 50-57): a dict
\* whose Chain_Of_Custody is a list. The bindings may be absent (None).
LoadedCocs ==
    {[CoC_Version          |-> JStr(StrVersion),
      Event_ID             |-> id,
      Event_Hash           |-> h,
      Evidence_Bundle_File |-> b,
      Chain_Of_Custody     |-> JList(es)] :
        id \in {JNull, JStr(StrE1)},
        h  \in {JNull, JStr(StrH1)},
        b  \in {JNull, JStr(StrB1)},
        es \in {<<>>, <<GoodEntry(JStr(UtcNow(ClockStart)))>>}}

InitCoC ==
    /\ \/ coc = NewCoc /\ origin = "new"
       \/ coc \in LoadedCocs /\ origin = "loaded"
    /\ clock = ClockStart
    /\ lastCall = NotRun
    /\ appendedBy = [i \in 1..Len(coc.Chain_Of_Custody.list) |-> LoadedMark]
    /\ verifyResult = NotRun
    /\ hash_input = Idle /\ cliResult = Idle /\ codecResult = Idle
    /\ coc_file = Idle /\ procs = Idle
    /\ index_data = Idle /\ errorsIndex = Idle /\ errorsLedger = Idle
    /\ bundle = Idle /\ bundleResult = Idle /\ untampered = Idle
    /\ event_index_file = Idle /\ challenge_index_file = Idle
    /\ events_dir = Idle /\ challenges_dir = Idle
    /\ auditResult = Idle /\ indexResult = Idle

\* One call of append_coc_entry as main makes it (lines 201-216), with the
\* identifiers of the bundle at hand and the holder given on the command line
\* (a location is given, notes are left at their default "").
AppendCall ==
    \E event_id \in {JStr(StrE1), JStr(StrE2)}, event_hash \in {JStr(StrH1), JStr(StrH2)},
       bundle_file \in {JStr(StrB1), JStr(StrB2)} :
        LET out == append_coc_entry(coc, event_id, event_hash, bundle_file,
                                    JStr(StrAlice), JStr(StrClerk), JStr(StrCreated),
                                    JStr(StrLA), JStr(<<>>), clock)
        IN  /\ out.raised # "" \/ Len(appendedBy) < MaxAppends
            /\ coc' = out.coc
            /\ lastCall' = [event_id |-> event_id, event_hash |-> event_hash,
                            before |-> coc, raised |-> out.raised]
            /\ appendedBy' = IF out.raised = ""
                             THEN Append(appendedBy, [event_id |-> event_id,
                                                      event_hash |-> event_hash])
                             ELSE appendedBy
            /\ verifyResult' = NotRun
            /\ UNCHANGED <<origin, clock, seqVars, bundleVars, ledgerVars, hashVars, fileVars>>

\* The clock moves on by a second.
Tick ==
    /\ clock < ClockStart + MaxTicks
    /\ clock' = clock + 1
    /\ UNCHANGED <<coc, origin, lastCall, appendedBy, verifyResult, seqVars, bundleVars, ledgerVars, hashVars, fileVars>>

\* A verification that fills in an unset Event_ID of the log it is given.
VerifyCoCSettingDefaults ==
    /\ verifyResult = NotRun
    /\ verifyResult' = verify_chain_of_custody(coc)
    /\ coc' = IF IsNull(coc.Event_ID) THEN [coc EXCEPT !.Event_ID = JStr(<<>>)] ELSE coc
    /\ UNCHANGED <<origin, clock, lastCall, appendedBy, seqVars, bundleVars, ledgerVars, hashVars, fileVars>>

\* verify_chain_of_custody.py main, line 136, on the log as it stands.
VerifyCoC ==
    /\ verifyResult = NotRun
    /\ verifyResult' = verify_chain_of_custody(coc)
    /\ UNCHANGED <<coc, origin, clock, lastCall, appendedBy, seqVars, bundleVars, ledgerVars, hashVars, fileVars>>

NextCoC == AppendCall \/ Tick \/ VerifyCoC

SpecCoC == InitCoC /\ [][NextCoC]_vars

-----------------------------------------------------------------------------
(* Chain of custody: hand-made logs given to the verifier *)

Stamp(k) == UtcNow(ClockStart + k)
\* A timestamp without its UTC designator, and one with a blank for the separator.
StampNoZ == SubSeq(Stamp(0), 1, Len(Stamp(0)) - 1)
StampNoT == [i \in 1..Len(Stamp(0)) |-> IF Stamp(0)[i] = CharT THEN 32 ELSE Stamp(0)[i]]

\* Entries of a hand-made log: every kind of timestamp with the other fields in
\* order, each kind of defect of another field, and an entry that is no dict.
HandMadeEntries ==
    {GoodEntry(ts) : ts \in {JNull, JInt(5), JStr(StampNoZ), JStr(StampNoT),
                             JStr(Stamp(0)), JStr(Stamp(1)), JStr(Stamp(2))}}
    \cup {[GoodEntry(JStr(Stamp(1))) EXCEPT !.Holder_Name = JNull],
          [GoodEntry(JStr(Stamp(1))) EXCEPT !.Holder_Role = JStr(<<>>)],
          [GoodEntry(JStr(Stamp(1))) EXCEPT !.Action = JInt(5)],
          JStr(StrX)}

\* Bindings in order, and bindings with a defect.
GoodBindings == <<JStr(StrE1), JStr(StrH1)>>
DefectiveBindings ==
    {<<JNull, JStr(StrH1)>>, <<JStr(<<>>), JStr(StrH1)>>,
     <<JStr(StrE1), JNull>>, <<JStr(StrE1), JInt(5)>>}

HandMadeCoc(b, es) ==
    [CoC_Version          |-> JStr(StrVersion),
     Event_ID             |-> b[1],
     Event_Hash           |-> b[2],
     Evidence_Bundle_File |-> JStr(StrB1),
     Chain_Of_Custody     |-> es]

\* Logs drawn for verification: bindings in order with every entries field (no
\* list, and every list of up to MaxCustodyLen entries), and each defect of the
\* bindings with no list and with the lists of at most one entry.
HandMadeCocs ==
    {HandMadeCoc(GoodBindings, es) :
        es \in {JNull} \cup {JList(l) : l \in SeqsUpTo(HandMadeEntries, MaxCustodyLen)}}
    \cup {HandMadeCoc(b, es) :
        b \in DefectiveBindings,
        es \in {JNull} \cup {JList(l) : l \in SeqsUpTo(HandMadeEntries, 1)}}

InitVerify ==
    /\ coc \in HandMadeCocs
    /\ origin = "loaded"
    /\ verifyResult = NotRun
    /\ clock = Idle /\ lastCall = Idle /\ appendedBy = Idle
    /\ hash_input = Idle /\ cliResult = Idle /\ codecResult = Idle
    /\ coc_file = Idle /\ procs = Idle
    /\ index_data = Idle /\ errorsIndex = Idle /\ errorsLedger = Idle
    /\ bundle = Idle /\ bundleResult = Idle /\ untampered = Idle
    /\ event_index_file = Idle /\ challenge_index_file = Idle
    /\ events_dir = Idle /\ challenges_dir = Idle
    /\ auditResult = Idle /\ indexResult = Idle

NextVerify == VerifyCoC

SpecVerify == InitVerify /\ [][NextVerify]_vars

-----------------------------------------------------------------------------
(* Chain of custody: what append and verify are required to do *)

Called == "raised" \in DOMAIN lastCall
Verified == "findings" \in DOMAIN verifyResult

Entries(c) == c.Chain_Of_Custody.list

\* C3: a call of append_coc_entry on a log bound to another Event_ID fails with
\* the identity mismatch and leaves the log as it was: bindings, bundle file, entries.
C3_IdentityMismatchLeavesLog ==
    (Called /\ ~IsNull(lastCall.before.Event_ID)
            /\ lastCall.before.Event_ID # lastCall.event_id)
        => /\ lastCall.raised = "RecordIdentityMismatch"
           /\ coc = lastCall.before

\* A log bound to "E1", with an entry and an unset hash, refused for "E2".
C3_Witness ==
    /\ Called
    /\ lastCall.before.Event_ID = JStr(StrE1)
    /\ lastCall.event_id = JStr(StrE2)
    /\ lastCall.raised = "RecordIdentityMismatch"
    /\ IsNull(lastCall.before.Event_Hash)
    /\ Len(Entries(coc)) > 0

\* C4: a call of append_coc_entry that passes the Event_ID rule on a log whose
\* Event_Hash is set to another hash fails with the hash mismatch and leaves the
\* log as it was, an unset Event_ID included.
C4_HashMismatchLeavesLog ==
    (Called /\ ~IsNull(lastCall.before.Event_Hash)
            /\ lastCall.before.Event_Hash # lastCall.event_hash
            /\ (IsNull(lastCall.before.Event_ID)
                \/ lastCall.before.Event_ID = lastCall.event_id))
        => /\ lastCall.raised = "HashIdentityMismatch"
           /\ coc = lastCall.before

BindingsKept ==
    /\ ~IsNull(coc.Event_ID) => coc'.Event_ID = coc.Event_ID
    /\ ~IsNull(coc.Event_Hash) => coc'.Event_Hash = coc.Event_Hash

AppendedUnderBindings ==
    \A i \in 1..Len(appendedBy) :
        appendedBy[i] # LoadedMark =>
            /\ appendedBy[i].event_id = coc.Event_ID
            /\ appendedBy[i].event_hash = coc.Event_Hash

\* C5: over any run of append calls, failing ones included, a bound Event_ID or
\* Event_Hash never changes, and every entry was appended by a call made with
\* the bound Event_ID and Event_Hash.
C5_BindingsImmutable == [][BindingsKept]_vars /\ []AppendedUnderBindings

\* Two entries appended, then a call with another hash refused.
C5_Witness ==
    /\ Called
    /\ lastCall.raised = "HashIdentityMismatch"
    /\ Len(appendedBy) >= 2
    /\ \A i \in 1..Len(appendedBy) : appendedBy[i] # LoadedMark

StampsIncrease(c) ==
    \A i \in 2..Len(Entries(c)) :
        StrLt(Entries(c)[i - 1].Entry_Timestamp_UTC.str, Entries(c)[i].Entry_Timestamp_UTC.str)

OrderingFindings(r) == SelectSeq(r.findings, LAMBDA f : f.kind = "Ordering")

\* C6: in a log built from a new one by append calls alone, the entries'
\* timestamps increase strictly, and verify reports no ordering finding.
C6_AppendKeepsOrder ==
    origin = "new" =>
        /\ StampsIncrease(coc)
        /\ Verified => OrderingFindings(verifyResult) = <<>>

AllStringStamps(c) ==
    /\ IsList(c.Chain_Of_Custody)
    /\ \A i \in 1..Len(Entries(c)) :
           IsEntryDict(Entries(c)[i]) /\ IsStr(Entries(c)[i].Entry_Timestamp_UTC)

NotLater(c, i) ==
    i > 1 /\ ~StrLt(Entries(c)[i - 1].Entry_Timestamp_UTC.str,
                    Entries(c)[i].Entry_Timestamp_UTC.str)

\* C7: on a log whose entries all carry string timestamps, verify reports an
\* ordering finding for entry i exactly when i > 1 and its timestamp is not
\* strictly greater than that of entry i-1, once per such entry, and scans on.
C7_OrderingAgainstPrevious ==
    (Verified /\ AllStringStamps(coc)) =>
        /\ ~verifyResult.crashed
        /\ verifyResult.scanned = Len(Entries(coc))
        /\ \A i \in 1..Len(Entries(coc)) :
               (\E k \in 1..Len(OrderingFindings(verifyResult)) :
                    OrderingFindings(verifyResult)[k].entry = i) <=> NotLater(coc, i)
        /\ Len(OrderingFindings(verifyResult))
               = Cardinality({i \in 1..Len(Entries(coc)) : NotLater(coc, i)})

\* A log made by hand with the latest stamp first: entry 2 is reported, entry 3 is not.
C7_Witness ==
    /\ Verified
    /\ IsList(coc.Chain_Of_Custody)
    /\ Entries(coc) = <<GoodEntry(JStr(Stamp(2))), GoodEntry(JStr(Stamp(0))),
                        GoodEntry(JStr(Stamp(1)))>>
    /\ OrderingFindings(verifyResult) = <<CocFinding("Ordering", 2)>>

AllEntriesDicts(c) == \A i \in 1..Len(Entries(c)) : IsEntryDict(Entries(c)[i])

\* C8: verify ends early only when the entries field is no list; on a list of
\* entries it scans every entry, whatever timestamp an entry holds (none, null,
\* no string), and returns ok = false on any violation instead of ending with
\* an unhandled error.
C8_ScanNeverRaises ==
    Verified =>
        /\ verifyResult.aborted <=> ~IsList(coc.Chain_Of_Custody)
        /\ (IsList(coc.Chain_Of_Custody) /\ AllEntriesDicts(coc)) =>
               /\ ~verifyResult.crashed
               /\ verifyResult.scanned = Len(Entries(coc))
               /\ verifyResult.findings # <<>> => ~verifyResult.ok

WellFormedEntry(c, i) ==
    LET e == Entries(c)[i] IN
    /\ IsEntryDict(e)
    /\ IsStr(e.Entry_Timestamp_UTC)
    /\ Contains(e.Entry_Timestamp_UTC.str, CharT)
    /\ EndsWith(e.Entry_Timestamp_UTC.str, CharZ)
    /\ \A v \in {e.Holder_Name, e.Holder_Role, e.Action} : IsStr(v) /\ v.str # <<>>
    /\ i > 1 => /\ IsEntryDict(Entries(c)[i - 1])
                /\ IsStr(Entries(c)[i - 1].Entry_Timestamp_UTC)
                /\ StrLt(Entries(c)[i - 1].Entry_Timestamp_UTC.str, e.Entry_Timestamp_UTC.str)

WellFormedCoc(c) ==
    /\ IsStr(c.Event_ID) /\ c.Event_ID.str # <<>>
    /\ IsStr(c.Event_Hash) /\ c.Event_Hash.str # <<>>
    /\ IsList(c.Chain_Of_Custody)
    /\ \A i \in 1..Len(Entries(c)) : WellFormedEntry(c, i)

-----------------------------------------------------------------------------
(* Canonical serialization and hashing: hash_event.py, hash_challenge.py *)

MaxFields == 2   \* most keys of a record drawn

StrSha256 == <<115, 104, 97, 50, 53, 54>>   \* "sha256"
StrMd5    == <<109, 100, 53>>   \* "md5"
StrNull   == <<110, 117, 108, 108>>  \* "null"
StrTrue   == <<116, 114, 117, 101>>  \* "true"
StrFalse  == <<102, 97, 108, 115, 101>> \* "false"

\* The digests hashlib.new knows, as far as they are drawn here.
SupportedAlgorithms == {StrSha256, StrMd5}

\* Sorted insertion of a (key, value) pair: sort_keys=True orders the items of a
\* dict by key, keys being compared as str.
RECURSIVE InsertPair(_, _)
InsertPair(sorted, kv) ==
    IF sorted = <<>> THEN <<kv>>
    ELSE IF StrLt(kv[1], Head(sorted)[1]) THEN <<kv>> \o sorted
    ELSE <<Head(sorted)>> \o InsertPair(Tail(sorted), kv)

\* A sort that leaves the items in the order of insertion.
UnsortedPairs(kvs) == kvs

RECURSIVE SortPairs(_)
SortPairs(kvs) ==
    IF kvs = <<>> THEN <<>>
    ELSE InsertPair(SortPairs(SubSeq(kvs, 1, Len(kvs) - 1)), kvs[Len(kvs)])

\* The JSON escapes of a str with ensure_ascii=False: the quote and the backslash
\* (the strings drawn hold no control characters).
RECURSIVE EscapeStr(_)
EscapeStr(s) ==
    IF s = <<>> THEN <<>>
    ELSE (IF Head(s) \in {34, 92} THEN <<92, Head(s)>> ELSE <<Head(s)>>) \o EscapeStr(Tail(s))

\* repr of a float h/2 that is finite and not negative: "k.0" or "k.5".
FloatRepr(h) == Digits(h \div 2, 1) \o <<46>> \o (IF h % 2 = 0 THEN <<Char0>> ELSE <<Char0 + 5>>)

\* float("nan"), float("inf"), float("-inf"): what json.load makes of the
\* literals NaN, Infinity, -Infinity (and of a number too large, as 1e999).
JNonFinite(name) == [nonfinite |-> name]
IsNonFinite(v) == "nonfinite" \in DOMAIN v
StrNaN      == <<78, 97, 78>>                          \* "NaN"
StrInfinity == <<73, 110, 102, 105, 110, 105, 116, 121>>   \* "Infinity"

\* What json.dumps writes for a float that is not finite: allow_nan is left at
\* its default, True, so the JavaScript literal is written and nothing is raised.
NonFiniteRepr(name) ==
    CASE name = "nan"  -> StrNaN
      [] name = "inf"  -> StrInfinity
      [] name = "-inf" -> <<45>> \o StrInfinity

\* json.dumps(v, sort_keys=True, ensure_ascii=False, separators=(",", ":")),
\* lines 49-54: the text, as code points.
RECURSIVE JsonDumps(_), DumpItems(_), DumpPairs(_)
JsonDumps(v) ==
    CASE IsNull(v)  -> StrNull
      [] IsNonFinite(v) -> NonFiniteRepr(v.nonfinite)
      [] IsBool(v)  -> IF v.bool THEN StrTrue ELSE StrFalse
      [] IsInt(v)   -> IF v.int < 0 THEN <<45>> \o Digits(0 - v.int, 1) ELSE Digits(v.int, 1)
      [] IsFloat(v) -> FloatRepr(v.float)
      [] IsStr(v)   -> <<34>> \o EscapeStr(v.str) \o <<34>>
      [] IsList(v)  -> <<91>> \o DumpItems(v.list) \o <<93>>
      [] IsDict(v)  -> <<123>> \o DumpPairs(SortPairs(v.dict)) \o <<125>>
DumpItems(l) ==
    IF l = <<>> THEN <<>>
    ELSE IF Len(l) = 1 THEN JsonDumps(l[1])
    ELSE JsonDumps(l[1]) \o <<44>> \o DumpItems(Tail(l))
DumpPairs(kvs) ==
    IF kvs = <<>> THEN <<>>
    ELSE LET item == JsonDumps(JStr(kvs[1][1])) \o <<CharColon>> \o JsonDumps(kvs[1][2]) IN
         IF Len(kvs) = 1 THEN item ELSE item \o <<44>> \o DumpPairs(Tail(kvs))

\* str.encode("utf-8"), line 55: a surrogate code point cannot be encoded.
IsSurrogate(cp) == 55296 <= cp /\ cp <= 57343
Utf8Char(cp) ==
    IF cp < 128 THEN <<cp>>
    ELSE IF cp < 2048 THEN <<192 + (cp \div 64), 128 + (cp % 64)>>
    ELSE IF cp < 65536
    THEN <<224 + (cp \div 4096), 128 + ((cp \div 64) % 64), 128 + (cp % 64)>>
    ELSE <<240 + (cp \div 262144), 128 + ((cp \div 4096) % 64),
           128 + ((cp \div 64) % 64), 128 + (cp % 64)>>
RECURSIVE Utf8(_)
Utf8(s) == IF s = <<>> THEN <<>> ELSE Utf8Char(Head(s)) \o Utf8(Tail(s))

Raised(error) == [ok |-> FALSE, error |-> error]

\* canonical_serialize (hash_event.py lines 37-55): the bytes, or the error raised.
canonical_serialize(data) ==
    LET text == JsonDumps(data) IN
    IF \E i \in 1..Len(text) : IsSurrogate(text[i])
    THEN Raised("UnicodeEncodeError")
    ELSE [ok |-> TRUE, bytes |-> Utf8(text)]

\* A digest that covers no more than the first five bytes.
HexDigestOfPrefix(algorithm, bytes) ==
    algorithm \o <<CharColon>> \o SubSeq(bytes, 1, IF Len(bytes) < 5 THEN Len(bytes) ELSE 5)

\* hexdigest of the bytes under an algorithm. A cryptographic digest is taken to
\* be free of collisions: it is modelled as a one-to-one image of the algorithm
\* and the bytes, written as a str.
HexDigest(algorithm, bytes) == algorithm \o <<CharColon>> \o bytes

\* A hash_event that falls back on sha256 for a name hashlib does not know.
hash_event_fallback(event_data, algorithm) ==
    LET data_bytes == canonical_serialize(event_data) IN
    IF ~data_bytes.ok THEN data_bytes
    ELSE [ok |-> TRUE,
          hex |-> JStr(HexDigest(IF algorithm \in SupportedAlgorithms THEN algorithm
                                 ELSE StrSha256, data_bytes.bytes))]

\* hash_event (lines 58-73): serialize, then pick the algorithm, then digest.
hash_event(event_data, algorithm) ==
    LET data_bytes == canonical_serialize(event_data) IN
    IF ~data_bytes.ok THEN data_bytes
    ELSE IF algorithm \notin SupportedAlgorithms THEN Raised("UnsupportedAlgorithm")
    ELSE [ok |-> TRUE, hex |-> JStr(HexDigest(algorithm, data_bytes.bytes))]

\* A serialization that encodes a lone surrogate (errors="surrogatepass").
challenge_canonical_serialize_surrogatepass(data) ==
    [ok |-> TRUE, bytes |-> Utf8(JsonDumps(data))]

\* hash_challenge.py: canonical_serialize (lines 36-54) and hash_challenge (57-72).
challenge_canonical_serialize(data) ==
    LET text == JsonDumps(data) IN
    IF \E i \in 1..Len(text) : IsSurrogate(text[i])
    THEN Raised("UnicodeEncodeError")
    ELSE [ok |-> TRUE, bytes |-> Utf8(text)]

\* hash_challenge with another digest taken when the default is asked for.
hash_challenge_other_default(challenge_data, algorithm) ==
    LET data_bytes == challenge_canonical_serialize(challenge_data) IN
    IF ~data_bytes.ok THEN data_bytes
    ELSE IF algorithm \notin SupportedAlgorithms THEN Raised("UnsupportedAlgorithm")
    ELSE [ok |-> TRUE,
          hex |-> JStr(HexDigest(IF algorithm = StrSha256 THEN StrMd5 ELSE algorithm,
                                 data_bytes.bytes))]

hash_challenge(challenge_data, algorithm) ==
    LET data_bytes == challenge_canonical_serialize(challenge_data) IN
    IF ~data_bytes.ok THEN data_bytes
    ELSE IF algorithm \notin SupportedAlgorithms THEN Raised("UnsupportedAlgorithm")
    ELSE [ok |-> TRUE, hex |-> JStr(HexDigest(algorithm, data_bytes.bytes))]

-----------------------------------------------------------------------------
(* Bundle verification: verify_bundle.py *)

\* "PLRS_Event_Evidence_Bundle"
StrEventBundle ==
    <<80, 76, 82, 83, 95, 69, 118, 101, 110, 116, 95, 69, 118, 105, 100, 101, 110, 99, 101, 95, 66, 117, 110, 100, 108, 101>>
\* "PLRS_Challenge_Evidence_Bundle"
StrChallengeBundle ==
    <<80, 76, 82, 83, 95, 67, 104, 97, 108, 108, 101, 110, 103, 101, 95, 69, 118, 105, 100, 101, 110, 99, 101, 95, 66, 117, 110, 100, 108, 101>>

BundleFinding(kind) == [kind |-> kind]

\* An Index_Entry is a dict when it has the entry's key; index_entry.get of
\* anything else raises AttributeError.
IsIndexEntryDict(e) == "Hash" \in DOMAIN e

\* An index comparison that is left out.
IndexEntryUnchecked(index_entry, bundle_hash) == [crashed |-> FALSE, findings |-> <<>>]

\* Lines 83-92 (132-141): the Index_Entry, when there is one, against the bundle's hash.
IndexEntryCheck(index_entry, bundle_hash) ==
    IF IsNull(index_entry) THEN [crashed |-> FALSE, findings |-> <<>>]
    ELSE IF ~IsIndexEntryDict(index_entry) THEN [crashed |-> TRUE, findings |-> <<>>]
    ELSE IF ~PyEq(index_entry.Hash, bundle_hash)
    THEN [crashed |-> FALSE, findings |-> <<BundleFinding("IndexHashMismatch")>>]
    ELSE [crashed |-> FALSE, findings |-> <<>>]

BundleVerdict(ok, crashed, hashed, findings) ==
    [ok |-> ok, crashed |-> crashed, hashed |-> hashed, findings |-> findings]

\* A verification that stops at the first hash that differs.
VerifyRecordBundleFailFast(record, bundle_hash, index_entry, computed) ==
    LET structural ==
            (IF ~IsDict(record) THEN <<BundleFinding("Record")>> ELSE <<>>)
            \o (IF MissingStr(bundle_hash) THEN <<BundleFinding("Hash")>> ELSE <<>>)
    IN
    IF structural # <<>> THEN BundleVerdict(FALSE, FALSE, FALSE, structural)
    ELSE IF ~computed.ok THEN BundleVerdict(FALSE, FALSE, FALSE, <<BundleFinding("HashError")>>)
    ELSE IF ~PyEq(computed.hex, bundle_hash)
    THEN BundleVerdict(FALSE, FALSE, TRUE, <<BundleFinding("HashMismatch")>>)
    ELSE LET index == IndexEntryCheck(index_entry, bundle_hash)
         IN  BundleVerdict(index.findings = <<>> /\ ~index.crashed, index.crashed, TRUE,
                           index.findings)

\* A verification that reports a bad Hash field and goes on to hash the record.
VerifyRecordBundleNoEarlyReturn(record, bundle_hash, index_entry, computed) ==
    LET structural ==
            (IF ~IsDict(record) THEN <<BundleFinding("Record")>> ELSE <<>>)
            \o (IF MissingStr(bundle_hash) THEN <<BundleFinding("Hash")>> ELSE <<>>)
    IN
    IF ~IsDict(record) THEN BundleVerdict(FALSE, FALSE, FALSE, structural)
    ELSE IF ~computed.ok THEN BundleVerdict(FALSE, FALSE, FALSE, <<BundleFinding("HashError")>>)
    ELSE LET mismatch == IF ~PyEq(computed.hex, bundle_hash)
                         THEN <<BundleFinding("HashMismatch")>> ELSE <<>>
             index    == IndexEntryCheck(index_entry, bundle_hash)
             findings == structural \o mismatch \o index.findings
         IN  BundleVerdict(findings = <<>> /\ ~index.crashed, index.crashed, TRUE, findings)

\* Lines 52-94 of verify_event_bundle, which lines 101-143 of
\* verify_challenge_bundle repeat: record and bundle_hash are read from the
\* bundle under the keys of its type, computed is the outcome of hashing the
\* record. ok is the returned value, crashed says that an exception left the
\* function instead, hashed says that the hash was recomputed.
VerifyRecordBundle(record, bundle_hash, index_entry, computed) ==
    LET structural ==
            (IF ~IsDict(record) THEN <<BundleFinding("Record")>> ELSE <<>>)
            \o (IF MissingStr(bundle_hash) THEN <<BundleFinding("Hash")>> ELSE <<>>)
    IN
    IF structural # <<>> THEN BundleVerdict(FALSE, FALSE, FALSE, structural)
    ELSE IF ~computed.ok THEN BundleVerdict(FALSE, FALSE, FALSE, <<BundleFinding("HashError")>>)
    ELSE LET mismatch == IF ~PyEq(computed.hex, bundle_hash)
                         THEN <<BundleFinding("HashMismatch")>> ELSE <<>>
             index    == IndexEntryCheck(index_entry, bundle_hash)
             findings == mismatch \o index.findings
         IN  BundleVerdict(findings = <<>> /\ ~index.crashed, index.crashed, TRUE, findings)

\* Lines 48-94.
verify_event_bundle(b) ==
    VerifyRecordBundle(b.Event, b.Event_Hash, b.Index_Entry, hash_event(b.Event, StrSha256))

\* Lines 97-143.
verify_challenge_bundle(b) ==
    VerifyRecordBundle(b.Challenge, b.Challenge_Hash, b.Index_Entry,
                       hash_challenge(b.Challenge, StrSha256))

\* main, lines 172-190: dispatch on Bundle_Type; the exit code is 0 for ok.
VerifyBundleMain(b) ==
    LET verdict ==
            IF b.Bundle_Type = JStr(StrEventBundle) THEN verify_event_bundle(b)
            ELSE IF b.Bundle_Type = JStr(StrChallengeBundle) THEN verify_challenge_bundle(b)
            ELSE BundleVerdict(FALSE, FALSE, FALSE, <<BundleFinding("Bundle_Type")>>)
    IN  [verdict EXCEPT !.ok = verdict.ok /\ ~verdict.crashed]

BundleVerified == "findings" \in DOMAIN bundleResult

IsEventBundle(b) == b.Bundle_Type = JStr(StrEventBundle)
IsChallengeBundle(b) == b.Bundle_Type = JStr(StrChallengeBundle)

\* The record and the hash a bundle carries under the keys of its type.
BundleRecord(b) == IF IsEventBundle(b) THEN b.Event ELSE b.Challenge
BundleHash(b) == IF IsEventBundle(b) THEN b.Event_Hash ELSE b.Challenge_Hash

\* Records drawn: dicts of up to MaxFields keys in any insertion order, with an
\* int, a str and a str that UTF-8 cannot encode (a lone surrogate) as values.
StrA == <<97>>       \* "a"
StrB == <<98>>       \* "b"
StrC == <<99>>       \* "c"
StrLoneSurrogate == <<55296>>
RecordKeys == {StrA, StrB, StrC}
RecordValues == {JInt(1), JStr(StrX), JStr(StrLoneSurrogate)}

DistinctKeys(kvs) == \A i, j \in 1..Len(kvs) : i # j => kvs[i][1] # kvs[j][1]

Records ==
    {JDict(kvs) : kvs \in {p \in SeqsUpTo(RecordKeys \X RecordValues, MaxFields) : DistinctKeys(p)}}

\* What stands where a record should: nothing, or a value that is no dict.
RecordSlots == Records \cup {JNull, JStr(StrX)}

\* The hash of a fixed other record, for hashes that are well formed and wrong.
OtherHash == hash_event(JDict(<< <<StrA, JInt(1)>> >>), StrSha256).hex

\* Hashes drawn for a record: its own, another record's, none, empty, no str.
HashSlots(record) ==
    {OtherHash, JNull, JStr(<<>>), JInt(5)}
    \cup (IF hash_event(record, StrSha256).ok THEN {hash_event(record, StrSha256).hex} ELSE {})

IndexEntrySlots(record) ==
    {JNull, JStr(StrX)} \cup {[Hash |-> h] : h \in HashSlots(record)}

\* Bundles drawn: a type tag, and the record and its hash under the keys of one type.
BundlesOf(t, k, r) ==
    {[Bundle_Type    |-> t,
      Event          |-> IF k = "Event" THEN r ELSE JNull,
      Event_Hash     |-> IF k = "Event" THEN h ELSE JNull,
      Challenge      |-> IF k = "Challenge" THEN r ELSE JNull,
      Challenge_Hash |-> IF k = "Challenge" THEN h ELSE JNull,
      Index_Entry    |-> x] :
        h \in HashSlots(r), x \in IndexEntrySlots(r)}

\* A bundle of either type with the keys of its type, an Event bundle that
\* carries the keys of a Challenge, and a bundle without a type.
BundleShapes ==
    {<<JStr(StrEventBundle), "Event">>, <<JStr(StrChallengeBundle), "Challenge">>,
     <<JStr(StrEventBundle), "Challenge">>, <<JNull, "Event">>}

Bundles == UNION {BundlesOf(s[1], s[2], r) : s \in BundleShapes, r \in RecordSlots}

InitBundle ==
    /\ bundle \in Bundles
    /\ bundleResult = NotRun
    /\ untampered = NotRun
    /\ event_index_file = Idle /\ challenge_index_file = Idle
    /\ events_dir = Idle /\ challenges_dir = Idle
    /\ auditResult = Idle /\ indexResult = Idle
    /\ hash_input = Idle /\ cliResult = Idle /\ codecResult = Idle
    /\ coc_file = Idle /\ procs = Idle
    /\ index_data = Idle /\ errorsIndex = Idle /\ errorsLedger = Idle
    /\ coc = Idle /\ origin = Idle /\ clock = Idle /\ lastCall = Idle
    /\ appendedBy = Idle /\ verifyResult = Idle

\* verify_bundle.py main on the loaded bundle.
VerifyBundle ==
    /\ bundleResult = NotRun
    /\ bundleResult' = VerifyBundleMain(bundle)
    /\ UNCHANGED <<bundle, untampered, seqVars, cocVars, ledgerVars, hashVars, fileVars>>

\* The record of b with the value of its i-th field replaced by v.
WithField(b, i, v) ==
    IF IsEventBundle(b)
    THEN [b EXCEPT !.Event = JDict([b.Event.dict EXCEPT ![i] = <<b.Event.dict[i][1], v>>])]
    ELSE [b EXCEPT !.Challenge =
              JDict([b.Challenge.dict EXCEPT ![i] = <<b.Challenge.dict[i][1], v>>])]

\* Values a changed field is given: among them a float equal to the int 1.
TamperValues == RecordValues \cup {JFloat(2), JNull}

\* Between two runs of verify_bundle.py the bundle file is edited: one field of
\* the record of a bundle that verified ok is given another value, the hash and
\* the Index_Entry stay; the next run loads the edited file.
Tamper ==
    /\ untampered = NotRun
    /\ BundleVerified /\ bundleResult.ok
    /\ \E i \in 1..Len(BundleRecord(bundle).dict) :
           \E v \in TamperValues \ {BundleRecord(bundle).dict[i][2]} :
               bundle' = WithField(bundle, i, v)
    /\ untampered' = bundle
    /\ bundleResult' = NotRun
    /\ UNCHANGED <<seqVars, cocVars, ledgerVars, hashVars, fileVars>>

NextBundle == VerifyBundle \/ Tamper

SpecBundle == InitBundle /\ [][NextBundle]_vars

-----------------------------------------------------------------------------
(* Bundle verification: what it is required to report *)

\* digest(encode(Record)) under the default algorithm, by the hash tool of the type.
Recomputed(b) ==
    IF IsEventBundle(b) THEN hash_event(b.Event, StrSha256)
    ELSE hash_challenge(b.Challenge, StrSha256)

ConsistentBundle(b) ==
    /\ IsDict(BundleRecord(b))
    /\ IsStr(BundleHash(b)) /\ BundleHash(b).str # <<>>
    /\ Recomputed(b).ok
    /\ Recomputed(b).hex = BundleHash(b)
    /\ ~IsNull(b.Index_Entry) =>
           /\ IsIndexEntryDict(b.Index_Entry)
           /\ b.Index_Entry.Hash = BundleHash(b)

\* C10: verification of an Event or Challenge bundle returns ok = true exactly
\* when the record is a mapping, the bundle's hash is a non-empty string, the
\* recomputed hash of the record equals it and, when there is an Index_Entry,
\* the entry's Hash equals it too.
C10_OkIffConsistent ==
    (BundleVerified /\ (IsEventBundle(bundle) \/ IsChallengeBundle(bundle)))
        => (bundleResult.ok <=> ConsistentBundle(bundle))

\* A Challenge bundle of a two-key record with its Index_Entry, verified ok.
C10_Witness ==
    /\ BundleVerified
    /\ IsChallengeBundle(bundle)
    /\ bundleResult.ok
    /\ IsDict(bundle.Challenge) /\ Len(bundle.Challenge.dict) = 2
    /\ ~IsNull(bundle.Index_Entry)
    /\ bundle.Index_Entry.Hash = bundle.Challenge_Hash

HasFinding(result, kind) ==
    \E k \in 1..Len(result.findings) : result.findings[k] = BundleFinding(kind)

CountFinding(result, kind) ==
    Cardinality({k \in 1..Len(result.findings) : result.findings[k] = BundleFinding(kind)})

StructurallyValid(b) ==
    /\ IsEventBundle(b) \/ IsChallengeBundle(b)
    /\ IsDict(BundleRecord(b))
    /\ IsStr(BundleHash(b)) /\ BundleHash(b).str # <<>>

StructuralFailure(b) == ~IsDict(BundleRecord(b)) \/ MissingStr(BundleHash(b))

\* C12: when the record is absent or no mapping, or the hash is absent, no string
\* or empty, the verification of an Event or Challenge bundle returns ok = false
\* without recomputing a hash, and reports the structural findings alone: no
\* hash error, no HashMismatch and no IndexHashMismatch, and a bad Index_Entry is
\* not even read.
C12_StructuralFailureReturnsAtOnce ==
    (/\ BundleVerified
     /\ IsEventBundle(bundle) \/ IsChallengeBundle(bundle)
     /\ StructuralFailure(bundle))
        => /\ ~bundleResult.ok
           /\ ~bundleResult.hashed
           /\ ~bundleResult.crashed
           /\ bundleResult.findings # <<>>
           /\ \A k \in 1..Len(bundleResult.findings) :
                  bundleResult.findings[k].kind \in {"Record", "Hash"}
           /\ HasFinding(bundleResult, "Record") <=> ~IsDict(BundleRecord(bundle))
           /\ HasFinding(bundleResult, "Hash") <=> MissingStr(BundleHash(bundle))

\* A Challenge bundle with a good record, an Index_Entry of another hash and the
\* number 5 for a hash: one finding, on the Hash field.
C12_Witness ==
    /\ BundleVerified
    /\ IsChallengeBundle(bundle)
    /\ IsDict(bundle.Challenge) /\ Len(bundle.Challenge.dict) = 1
    /\ bundle.Challenge_Hash = JInt(5)
    /\ IsIndexEntryDict(bundle.Index_Entry) /\ bundle.Index_Entry.Hash = OtherHash
    /\ bundleResult.findings = <<BundleFinding("Hash")>>
    /\ ~bundleResult.hashed

\* The bundle carries the hash that hash_event gives its record under the
\* default algorithm, in the bundle and in the Index_Entry when there is one.
FreshlyBuilt(b) ==
    /\ IsEventBundle(b) \/ IsChallengeBundle(b)
    /\ IsDict(BundleRecord(b))
    /\ hash_event(BundleRecord(b), StrSha256).ok
    /\ BundleHash(b) = hash_event(BundleRecord(b), StrSha256).hex
    /\ IsNull(b.Index_Entry)
           \/ (IsIndexEntryDict(b.Index_Entry) /\ b.Index_Entry.Hash = BundleHash(b))

\* C13: a bundle of either type whose record is a mapping and whose hash (and
\* Index_Entry.Hash, when there is an Index_Entry) is the digest of the record's
\* canonical encoding under the default algorithm verifies ok, with no finding.
C13_RoundTrip ==
    (BundleVerified /\ FreshlyBuilt(bundle))
        => /\ bundleResult.ok
           /\ ~bundleResult.crashed
           /\ bundleResult.hashed
           /\ bundleResult.findings = <<>>

\* A Challenge bundle of a record whose keys were inserted out of order, with no
\* Index_Entry, verified ok.
C13_Witness ==
    /\ BundleVerified
    /\ IsChallengeBundle(bundle)
    /\ FreshlyBuilt(bundle)
    /\ IsNull(bundle.Index_Entry)
    /\ Len(bundle.Challenge.dict) = 2
    /\ StrLt(bundle.Challenge.dict[2][1], bundle.Challenge.dict[1][1])
    /\ bundleResult.ok

Tampered == "Bundle_Type" \in DOMAIN untampered

-----------------------------------------------------------------------------
(* Ledger audit: verify_index.py and verify_ledger_inntegrity.py *)

MaxEventEntries == 2       \* longest Event index drawn
MaxChallengeEntries == 1   \* longest Challenge index drawn

\* A file: not there, there with text that is no JSON, or there with a JSON value.
Missing == [missing |-> TRUE]
Malformed == [malformed |-> TRUE]
FileOf(v) == [json |-> v]

\* load_json_file (lines 43-50; verify_index.py lines 30-37).
load_json_file(file) ==
    IF file = Missing THEN Raised("FileNotFoundError")
    ELSE IF file = Malformed THEN Raised("ValueError")
    ELSE [ok |-> TRUE, value |-> file.json]

\* events_dir / f"{event_id}.json": the file of that name in the directory.
DirFile(dir, id) == IF id \in DOMAIN dir THEN dir[id] ELSE Missing

\* A line of the report: the label in brackets, what it says, the entry it is about.
LedgerFinding(label, kind, pos) == [label |-> label, kind |-> kind, pos |-> pos]

\* The Index_Seq lines of a sequence audit, under the label of the index.
RECURSIVE SeqFindings(_, _)
SeqFindings(errors, label) ==
    IF errors = <<>> THEN <<>>
    ELSE <<LedgerFinding(label, "Index_Seq", Head(errors).pos)>>
         \o SeqFindings(Tail(errors), label)

\* What a function returns, or that an exception left it.
Returned(errors) == [ok |-> TRUE, errors |-> errors]
AllEntryDicts(data) == \A i \in 1..Len(data) : IsIndexEntryDict(data[i])

StrEventIndex     == <<69, 86, 69, 78, 84, 95, 73, 78, 68, 69, 88>>   \* "EVENT_INDEX"
StrChallengeIndex ==
    <<67, 72, 65, 76, 76, 69, 78, 71, 69, 95, 73, 78, 68, 69, 88>>    \* "CHALLENGE_INDEX"
StrNoLabel == <<>>   \* verify_index.py writes no label

\* verify_index_hashes, lines 73-95: the body of the loop for one entry.
IndexHashEntry(entry, pos, dir, algo) ==
    LET event_id == entry.Event_ID
        expected_hash == entry.Hash
    IN
    IF ~Truthy(event_id) \/ ~Truthy(expected_hash)
    THEN <<LedgerFinding(StrNoLabel, "MissingIdOrHash", pos)>>
    ELSE LET event_data == load_json_file(DirFile(dir, event_id)) IN
         IF ~event_data.ok THEN <<LedgerFinding(StrNoLabel, "MissingOrInvalid", pos)>>
         ELSE LET computed_hash == hash_event(event_data.value, algo) IN
              IF ~computed_hash.ok THEN <<LedgerFinding(StrNoLabel, "HashError", pos)>>
              ELSE IF ~PyEq(computed_hash.hex, expected_hash)
              THEN <<LedgerFinding(StrNoLabel, "HashMismatch", pos)>>
              ELSE <<>>

\* A loop that ends at the first entry with a finding.
RECURSIVE IndexHashLoopBreak(_, _, _, _)
IndexHashLoopBreak(data, n, dir, algo) ==
    IF n = 0 THEN <<>>
    ELSE LET before == IndexHashLoopBreak(data, n - 1, dir, algo) IN
         IF before # <<>> THEN before ELSE IndexHashEntry(data[n], n, dir, algo)

\* verify_index_hashes, lines 71-97: the loop over the first n entries.
RECURSIVE IndexHashLoop(_, _, _, _)
IndexHashLoop(data, n, dir, algo) ==
    IF n = 0 THEN <<>>
    ELSE IndexHashLoop(data, n - 1, dir, algo) \o IndexHashEntry(data[n], n, dir, algo)

\* verify_index_hashes (lines 58-97): entry.get raises on an entry that is no dict.
verify_index_hashes(data, dir, algo) ==
    IF ~AllEntryDicts(data) THEN Raised("AttributeError")
    ELSE Returned(IndexHashLoop(data, Len(data), dir, algo))

\* The report and exit code of a run; crashed: an exception ended the run
\* before anything was reported (the interpreter then exits with 1).
Report(errors) == [exit |-> IF errors # <<>> THEN 1 ELSE 0, crashed |-> FALSE, errors |-> errors]
Crash == [exit |-> 1, crashed |-> TRUE, errors |-> <<>>]

\* verify_index.py main, lines 126-161.
index_main(index_file, dir, algo) ==
    LET loaded == load_json_file(index_file) IN
    IF ~loaded.ok THEN Report(<<LedgerFinding(StrNoLabel, "IndexLoad", 0)>>)
    ELSE IF ~IsList(loaded.value) THEN Report(<<LedgerFinding(StrNoLabel, "IndexLoad", 0)>>)
    ELSE LET data == loaded.value.list IN
         IF ~AllEntryDicts(data) THEN Crash
         ELSE LET hash_errors == verify_index_hashes(data, dir, algo) IN
              Report(SeqFindings(verify_index_sequence(data), StrNoLabel)
                     \o hash_errors.errors)

\* verify_event_index, lines 83-121: the body of the loop for one entry.
EventEntry(entry, pos, dir) ==
    LET event_id == entry.Event_ID
        index_hash == entry.Hash
    IN
    IF ~Truthy(event_id) \/ ~Truthy(index_hash)
    THEN <<LedgerFinding(StrEventIndex, "MissingIdOrHash", pos)>>
    ELSE LET event_file == DirFile(dir, event_id) IN
         IF event_file = Missing THEN <<LedgerFinding(StrEventIndex, "MissingFile", pos)>>
         ELSE LET event_data == load_json_file(event_file) IN
              IF ~event_data.ok THEN <<LedgerFinding(StrEventIndex, "LoadFailed", pos)>>
              ELSE LET computed_hash == hash_event(event_data.value, StrSha256) IN
                   IF ~computed_hash.ok THEN <<LedgerFinding(StrEventIndex, "HashError", pos)>>
                   ELSE IF ~PyEq(computed_hash.hex, index_hash)
                   THEN <<LedgerFinding(StrEventIndex, "HashMismatch", pos)>>
                   ELSE <<>>

\* verify_event_index, lines 82-121: the loop over the first n entries.
RECURSIVE EventLoop(_, _, _)
EventLoop(data, n, dir) ==
    IF n = 0 THEN <<>> ELSE EventLoop(data, n - 1, dir) \o EventEntry(data[n], n, dir)

\* verify_event_index (lines 72-123): the sequence audit, then the loop.
verify_event_index(data, dir) ==
    IF ~AllEntryDicts(data) THEN Raised("AttributeError")
    ELSE Returned(SeqFindings(ledger_verify_index_sequence(data), StrEventIndex)
                  \o EventLoop(data, Len(data), dir))

\* Lines 180-185: the cross-link of one entry.
CrossLink(challenged_event_id, known_event_ids, pos) ==
    IF Truthy(challenged_event_id) /\ challenged_event_id \notin known_event_ids
    THEN <<LedgerFinding(StrChallengeIndex, "DanglingReference", pos)>>
    ELSE <<>>

\* verify_challenge_index, lines 138-185: the body of the loop for one entry;
\* every `continue` skips the cross-link at the end of the body.
ChallengeEntry(entry, pos, dir, known_event_ids) ==
    LET challenge_id == entry.Challenge_ID
        index_hash == entry.Hash
        challenged_event_id == entry.Challenged_Event_ID
    IN
    IF ~Truthy(challenge_id) \/ ~Truthy(index_hash)
    THEN <<LedgerFinding(StrChallengeIndex, "MissingIdOrHash", pos)>>
    ELSE LET challenge_file == DirFile(dir, challenge_id) IN
         IF challenge_file = Missing
         THEN <<LedgerFinding(StrChallengeIndex, "MissingFile", pos)>>
         ELSE LET challenge_data == load_json_file(challenge_file) IN
              IF ~challenge_data.ok
              THEN <<LedgerFinding(StrChallengeIndex, "LoadFailed", pos)>>
              ELSE LET computed_hash == hash_challenge(challenge_data.value, StrSha256) IN
                   IF ~computed_hash.ok
                   THEN <<LedgerFinding(StrChallengeIndex, "HashError", pos)>>
                   ELSE (IF ~PyEq(computed_hash.hex, index_hash)
                         THEN <<LedgerFinding(StrChallengeIndex, "HashMismatch", pos)>>
                         ELSE <<>>)
                        \o CrossLink(challenged_event_id, known_event_ids, pos)

\* verify_challenge_index, lines 137-185: the loop over the first n entries.
RECURSIVE ChallengeLoop(_, _, _, _)
ChallengeLoop(data, n, dir, known_event_ids) ==
    IF n = 0 THEN <<>>
    ELSE ChallengeLoop(data, n - 1, dir, known_event_ids)
         \o ChallengeEntry(data[n], n, dir, known_event_ids)

\* verify_challenge_index (lines 126-187).
verify_challenge_index(data, dir, known_event_ids) ==
    IF ~AllEntryDicts(data) THEN Raised("AttributeError")
    ELSE Returned(SeqFindings(ledger_verify_index_sequence(data), StrChallengeIndex)
                  \o ChallengeLoop(data, Len(data), dir, known_event_ids))

\* main, lines 236-250: an index that fails to load, or is no list, is reported
\* and audited as the empty list.
LoadIndex(index_file, label) ==
    LET loaded == load_json_file(index_file) IN
    IF ~loaded.ok \/ ~IsList(loaded.value)
    THEN [data |-> <<>>, errors |-> <<LedgerFinding(label, "IndexLoad", 0)>>]
    ELSE [data |-> loaded.value.list, errors |-> <<>>]

\* main, lines 259-263: the Event_IDs of the Event index that are str.
KnownEventIds(event_index_data) ==
    {event_index_data[i].Event_ID : i \in {j \in 1..Len(event_index_data) :
                                             IsStr(event_index_data[j].Event_ID)}}

\* A main that takes no Challenged_Event_ID for dangling.
ledger_main_no_links(event_file, challenge_file, ev_dir, ch_dir) ==
    LET ev == LoadIndex(event_file, StrEventIndex)
        ch == LoadIndex(challenge_file, StrChallengeIndex)
        event_side == IF ev.data # <<>> THEN verify_event_index(ev.data, ev_dir)
                      ELSE Returned(<<>>)
    IN
    IF ~event_side.ok THEN Crash
    ELSE LET challenge_side ==
                 IF ch.data # <<>>
                 THEN verify_challenge_index(ch.data, ch_dir,
                          {ch.data[i].Challenged_Event_ID : i \in 1..Len(ch.data)})
                 ELSE Returned(<<>>)
         IN  IF ~challenge_side.ok THEN Crash
             ELSE Report(ev.errors \o ch.errors \o event_side.errors \o challenge_side.errors)

\* verify_ledger_inntegrity.py main, lines 224-282.
ledger_main(event_file, challenge_file, ev_dir, ch_dir) ==
    LET ev == LoadIndex(event_file, StrEventIndex)
        ch == LoadIndex(challenge_file, StrChallengeIndex)
        event_side == IF ev.data # <<>> THEN verify_event_index(ev.data, ev_dir)
                      ELSE Returned(<<>>)
    IN
    IF ~event_side.ok THEN Crash
    ELSE LET challenge_side ==
                 IF ch.data # <<>>
                 THEN verify_challenge_index(ch.data, ch_dir, KnownEventIds(ev.data))
                 ELSE Returned(<<>>)
         IN  IF ~challenge_side.ok THEN Crash
             ELSE Report(ev.errors \o ch.errors \o event_side.errors \o challenge_side.errors)

\* The record files drawn: a record whose keys are stored out of order, and a
\* record that json.load accepts and UTF-8 cannot encode.
StoredRecord == JDict(<< <<StrB, JInt(1)>>, <<StrA, JStr(StrX)>> >>)
UnhashableRecord == JDict(<< <<StrA, JStr(StrLoneSurrogate)>> >>)
StoredHash == hash_event(StoredRecord, StrSha256).hex

StrE3 == <<69, 51>>   \* "E3"
StrE4 == <<69, 52>>   \* "E4"
StrC1 == <<67, 49>>   \* "C1"
StrC2 == <<67, 50>>   \* "C2"

\* The directory of Event files: E1.json holds the record, E2.json is no JSON,
\* E4.json holds the record that cannot be hashed, and there is no E3.json.
EventsDir ==
    (JStr(StrE1) :> FileOf(StoredRecord)) @@ (JStr(StrE2) :> Malformed)
    @@ (JStr(StrE4) :> FileOf(UnhashableRecord))

\* The directory of Challenge files: C1.json holds the record, there is no C2.json.
ChallengesDir == (JStr(StrC1) :> FileOf(StoredRecord))

\* Entries of an Event index by (Event_ID, Hash): consistent, of another hash,
\* of a file that is no JSON, of no file, of a record that cannot be hashed,
\* without Event_ID; and an entry that is no object.
EventKinds ==
    {<<JStr(StrE1), StoredHash>>, <<JStr(StrE1), OtherHash>>, <<JStr(StrE2), StoredHash>>,
     <<JStr(StrE3), StoredHash>>, <<JStr(StrE4), StoredHash>>, <<JNull, StoredHash>>,
     <<JStr(StrX)>>}

EventEntryOf(kind, seq) ==
    IF Len(kind) = 1 THEN kind[1]
    ELSE [Index_Seq |-> JInt(seq), Event_ID |-> kind[1], Hash |-> kind[2]]

\* Entries of a Challenge index by (Challenge_ID, Hash, Challenged_Event_ID).
ChallengeKinds ==
    {<<JStr(StrC1), StoredHash, JStr(StrE1)>>, <<JStr(StrC1), StoredHash, JStr(StrE2)>>,
     <<JStr(StrC1), StoredHash, JNull>>, <<JStr(StrC1), OtherHash, JStr(StrE1)>>,
     <<JStr(StrC2), StoredHash, JStr(StrE2)>>, <<JStr(StrX)>>}

ChallengeEntryOf(kind, seq) ==
    IF Len(kind) = 1 THEN kind[1]
    ELSE [Index_Seq |-> JInt(seq), Challenge_ID |-> kind[1], Hash |-> kind[2],
          Challenged_Event_ID |-> kind[3]]

\* The entries of an Event index drawn next to a Challenge index: consistent, of
\* another hash, of a file that is no JSON, and an entry that is no object.
LedgerEventKinds ==
    {<<JStr(StrE1), StoredHash>>, <<JStr(StrE1), OtherHash>>, <<JStr(StrE2), StoredHash>>,
     <<JStr(StrX)>>}

\* Index files: missing, no JSON, a JSON object, or a list of entries numbered
\* from 1 or, with a gap at the start, from 2.
NoIndexFiles == {Missing, Malformed, FileOf(JDict(<<>>))}

EventIndexFiles(kinds) ==
    NoIndexFiles
    \cup {FileOf(JList([i \in 1..Len(ks) |-> EventEntryOf(ks[i], i + shift)])) :
              ks \in SeqsUpTo(kinds, MaxEventEntries), shift \in {0, 1}}

ChallengeIndexFiles ==
    NoIndexFiles
    \cup {FileOf(JList([i \in 1..Len(ks) |-> ChallengeEntryOf(ks[i], i + shift)])) :
              ks \in SeqsUpTo(ChallengeKinds, MaxChallengeEntries), shift \in {0, 1}}

\* audit-ledger over an Event index and a Challenge index.
InitLedger ==
    /\ event_index_file \in EventIndexFiles(LedgerEventKinds)
    /\ challenge_index_file \in ChallengeIndexFiles
    /\ events_dir = EventsDir
    /\ challenges_dir = ChallengesDir
    /\ auditResult = NotRun
    /\ indexResult = Idle
    /\ hash_input = Idle /\ cliResult = Idle /\ codecResult = Idle
    /\ coc_file = Idle /\ procs = Idle
    /\ index_data = Idle /\ errorsIndex = Idle /\ errorsLedger = Idle
    /\ coc = Idle /\ origin = Idle /\ clock = Idle /\ lastCall = Idle
    /\ appendedBy = Idle /\ verifyResult = Idle
    /\ bundle = Idle /\ bundleResult = Idle /\ untampered = Idle

\* verify-index and audit-ledger over an Event index, the Challenge index
\* being empty or holding one consistent entry.
InitIndex ==
    /\ event_index_file \in EventIndexFiles(EventKinds)
    /\ challenge_index_file \in
           {FileOf(JList(<<>>)),
            FileOf(JList(<<ChallengeEntryOf(<<JStr(StrC1), StoredHash, JNull>>, 1)>>))}
    /\ events_dir = EventsDir
    /\ challenges_dir = ChallengesDir
    /\ auditResult = NotRun
    /\ indexResult = NotRun
    /\ hash_input = Idle /\ cliResult = Idle /\ codecResult = Idle
    /\ coc_file = Idle /\ procs = Idle
    /\ index_data = Idle /\ errorsIndex = Idle /\ errorsLedger = Idle
    /\ coc = Idle /\ origin = Idle /\ clock = Idle /\ lastCall = Idle
    /\ appendedBy = Idle /\ verifyResult = Idle
    /\ bundle = Idle /\ bundleResult = Idle /\ untampered = Idle

\* A run of verify_ledger_inntegrity.py over the two index files and directories.
RunLedgerMain ==
    /\ auditResult = NotRun
    /\ auditResult' = ledger_main(event_index_file, challenge_index_file,
                                  events_dir, challenges_dir)
    /\ UNCHANGED <<event_index_file, challenge_index_file, events_dir, challenges_dir,
                   indexResult, seqVars, cocVars, bundleVars, hashVars, fileVars>>

\* A run of verify_index.py over the Event index and directory, --algo sha256.
RunIndexMain ==
    /\ indexResult = NotRun
    /\ indexResult' = index_main(event_index_file, events_dir, StrSha256)
    /\ UNCHANGED <<event_index_file, challenge_index_file, events_dir, challenges_dir,
                   auditResult, seqVars, cocVars, bundleVars, hashVars, fileVars>>

NextLedger == RunLedgerMain

SpecLedger == InitLedger /\ [][NextLedger]_vars

NextIndex == RunLedgerMain \/ RunIndexMain

SpecIndex == InitIndex /\ [][NextIndex]_vars

-----------------------------------------------------------------------------
(* Ledger audit: what it is required to report *)

LedgerRan == "exit" \in DOMAIN auditResult
IndexRan == "exit" \in DOMAIN indexResult

\* The entries of an index file that holds a list, none otherwise.
IsListFile(file) == "json" \in DOMAIN file /\ IsList(file.json)
FileEntries(file) == IF IsListFile(file) THEN file.json.list ELSE <<>>

\* The kinds of the lines reported under a label about entry i, the sequence
\* and cross-link lines left out, in the order of the report.
RECURSIVE RecordKindsAt(_, _, _)
RecordKindsAt(errors, label, i) ==
    IF errors = <<>> THEN <<>>
    ELSE (IF /\ Head(errors).label = label
             /\ Head(errors).pos = i
             /\ Head(errors).kind \notin {"Index_Seq", "DanglingReference", "IndexLoad"}
          THEN <<Head(errors).kind>> ELSE <<>>)
         \o RecordKindsAt(Tail(errors), label, i)

\* The state of the record an Event index entry names, in the directory.
RecordState(entry, dir) ==
    IF ~Truthy(entry.Event_ID) \/ ~Truthy(entry.Hash) THEN "unnamed"
    ELSE IF DirFile(dir, entry.Event_ID) \in {Missing, Malformed} THEN "missing"
    ELSE IF ~hash_event(DirFile(dir, entry.Event_ID).json, StrSha256).ok THEN "unhashable"
    ELSE IF hash_event(DirFile(dir, entry.Event_ID).json, StrSha256).hex = entry.Hash
    THEN "match"
    ELSE "mismatch"

MissingRecordKinds == {"MissingOrInvalid", "MissingFile", "LoadFailed"}

\* What the hash audit owes entry i, whatever the other entries are.
HashAuditOf(errors, label, entries, dir) ==
    \A i \in 1..Len(entries) :
        LET kinds == RecordKindsAt(errors, label, i)
            state == RecordState(entries[i], dir)
        IN  /\ state = "missing" => Len(kinds) = 1 /\ kinds[1] \in MissingRecordKinds
            /\ state = "mismatch" => kinds = <<"HashMismatch">>
            /\ state = "match" => kinds = <<>>

LedgerEventIds ==
    {FileEntries(event_index_file)[i].Event_ID : i \in 1..Len(FileEntries(event_index_file))}

Dangling(entry) ==
    Truthy(entry.Challenged_Event_ID) /\ entry.Challenged_Event_ID \notin LedgerEventIds

DanglingLinesAt(errors, i) ==
    Cardinality({k \in 1..Len(errors) :
                     errors[k] = LedgerFinding(StrChallengeIndex, "DanglingReference", i)})

\* C16: a completed audit over indexes of entry objects reports one dangling
\* reference for every Challenge entry whose Challenged_Event_ID is non-empty
\* and is no Event_ID of the Event ledger, and none for any other entry, also
\* for entries that fail their own checks.
C16_EveryDanglingReferenceReported ==
    (/\ LedgerRan /\ ~auditResult.crashed
     /\ AllEntryDicts(FileEntries(event_index_file))
     /\ AllEntryDicts(FileEntries(challenge_index_file)))
        => \A i \in 1..Len(FileEntries(challenge_index_file)) :
               DanglingLinesAt(auditResult.errors, i)
                   = IF Dangling(FileEntries(challenge_index_file)[i]) THEN 1 ELSE 0

ChallengeRecordState(entry, dir) ==
    IF ~Truthy(entry.Challenge_ID) \/ ~Truthy(entry.Hash) THEN "unnamed"
    ELSE IF DirFile(dir, entry.Challenge_ID) \in {Missing, Malformed} THEN "missing"
    ELSE IF ~hash_challenge(DirFile(dir, entry.Challenge_ID).json, StrSha256).ok
    THEN "unhashable"
    ELSE IF hash_challenge(DirFile(dir, entry.Challenge_ID).json, StrSha256).hex = entry.Hash
    THEN "match"
    ELSE "mismatch"

\* Both index files hold lists of entry objects and no audit has anything to
\* report: the sequences are accepted, every record is there with the hash of
\* its entry, and every Challenged_Event_ID that is given names an Event.
ConsistentLedger ==
    /\ IsListFile(event_index_file) /\ IsListFile(challenge_index_file)
    /\ AllEntryDicts(FileEntries(event_index_file))
    /\ AllEntryDicts(FileEntries(challenge_index_file))
    /\ ledger_verify_index_sequence(FileEntries(event_index_file)) = <<>>
    /\ ledger_verify_index_sequence(FileEntries(challenge_index_file)) = <<>>
    /\ \A i \in 1..Len(FileEntries(event_index_file)) :
           RecordState(FileEntries(event_index_file)[i], events_dir) = "match"
    /\ \A i \in 1..Len(FileEntries(challenge_index_file)) :
           /\ ChallengeRecordState(FileEntries(challenge_index_file)[i], challenges_dir)
                  = "match"
           /\ ~Dangling(FileEntries(challenge_index_file)[i])

\* C17: the audit exits with 0 exactly when both index files load as arrays and
\* the sequence audit and the hash audit of either ledger and the cross-link
\* audit have nothing to report; it exits with 1 otherwise, and then reports at
\* least one line unless an exception ended it.
C17_ExitZeroIffNoFinding ==
    LedgerRan =>
        /\ auditResult.exit = 0 <=> ConsistentLedger
        /\ auditResult.exit = 0 <=> (auditResult.errors = <<>> /\ ~auditResult.crashed)
        /\ auditResult.exit \in {0, 1}

\* Two consistent Events and a consistent Challenge of E1: exit code 0.
C17_Witness ==
    /\ LedgerRan
    /\ auditResult.exit = 0
    /\ Len(FileEntries(event_index_file)) = 2
    /\ Len(FileEntries(challenge_index_file)) = 1
    /\ FileEntries(challenge_index_file)[1].Challenged_Event_ID = JStr(StrE1)

\* The lines of a report about one ledger, the cross-link lines left out.
RECURSIVE LedgerLines(_, _)
LedgerLines(errors, label) ==
    IF errors = <<>> THEN <<>>
    ELSE (IF Head(errors).label = label /\ Head(errors).kind # "DanglingReference"
          THEN <<Head(errors)>> ELSE <<>>)
         \o LedgerLines(Tail(errors), label)

EmptyIndexFile == FileOf(JList(<<>>))

\* C18: the lines reported about the Challenge ledger are those of an audit of
\* the same Challenge ledger next to an empty Event index, and the lines
\* reported about the Event ledger are those of an audit of the same Event
\* ledger next to an empty Challenge index: each ledger's sequence and hash
\* findings do not depend on what the other index file holds.
C18_LedgersIndependent ==
    LedgerRan =>
        /\ LedgerLines(auditResult.errors, StrChallengeIndex)
               = LedgerLines(ledger_main(EmptyIndexFile, challenge_index_file,
                                         events_dir, challenges_dir).errors,
                             StrChallengeIndex)
        /\ LedgerLines(auditResult.errors, StrEventIndex)
               = LedgerLines(ledger_main(event_index_file, EmptyIndexFile,
                                         events_dir, challenges_dir).errors,
                             StrEventIndex)

\* An entry with a structural or input error of its own.
DefectiveEntry(entry, dir) ==
    ~IsIndexEntryDict(entry) \/ RecordState(entry, dir) \in {"unnamed", "missing", "unhashable"}

HasLineAt(errors, i) == \E k \in 1..Len(errors) : errors[k].pos = i

\* C19: a run of verify-index or audit-ledger over an index that loads as an
\* array ends with a report, never with an unhandled error, and the report has
\* a line for every entry with a structural or input error (no object, no ID or
\* Hash, record file missing or no JSON, hash not computable).
C19_DefectiveEntryReportedAuditGoesOn ==
    IsListFile(event_index_file) =>
        /\ IndexRan =>
               /\ ~indexResult.crashed
               /\ \A i \in 1..Len(FileEntries(event_index_file)) :
                      DefectiveEntry(FileEntries(event_index_file)[i], events_dir)
                          => HasLineAt(indexResult.errors, i)
        /\ LedgerRan =>
               /\ ~auditResult.crashed
               /\ \A i \in 1..Len(FileEntries(event_index_file)) :
                      DefectiveEntry(FileEntries(event_index_file)[i], events_dir)
                          => HasLineAt(auditResult.errors, i)

-----------------------------------------------------------------------------
(* Sequence audit: the resynchronisation rule *)

\* An observed Index_Seq that parses as an integer: a JSON integer, or a string
\* of decimal digits; a string of anything else, a number with a fraction, null
\* and a missing value do not.
ParsesAsInteger(v) == IsInt(v) \/ (IsStr(v) /\ IsDigitString(v.str))
ParsedInteger(v) == IF IsInt(v) THEN v.int ELSE DigitsValue(v.str)
ClearlyNoInteger(v) ==
    IsNull(v) \/ (IsStr(v) /\ ~IsDigitString(v.str)) \/ (IsFloat(v) /\ v.float % 2 = 1)

\* The rule as stated, for one entry; st = [expected, errors].
RuleStep(st, pos, entry) ==
    LET seq == EntrySeq(entry) IN
    IF ~PyEq(seq, JInt(st.expected))
    THEN [expected |-> (IF ParsesAsInteger(seq) THEN ParsedInteger(seq) ELSE st.expected) + 1,
          errors   |-> Append(st.errors, SeqFinding(pos, st.expected, seq))]
    ELSE [expected |-> st.expected + 1, errors |-> st.errors]

RECURSIVE RuleLoop(_, _)
RuleLoop(data, n) ==
    IF n = 0 THEN SeqStart ELSE RuleStep(RuleLoop(data, n - 1), n, data[n])

\* C20: over an index whose Index_Seq values either parse as an integer or
\* clearly do not, both implementations report what the rule gives: one finding
\* for a mismatching entry, after which the next entry is compared against the
\* observed integer plus 1, or against the old expected value plus 1 when the
\* observed value is no integer, null or missing.
C20_ResyncRule ==
    (\A i \in 1..Len(index_data) :
         ParsesAsInteger(EntrySeq(index_data[i])) \/ ClearlyNoInteger(EntrySeq(index_data[i])))
        => /\ Ran(errorsIndex) => errorsIndex.errors = RuleLoop(index_data, Len(index_data)).errors
           /\ Ran(errorsLedger) => errorsLedger.errors = RuleLoop(index_data, Len(index_data)).errors

-----------------------------------------------------------------------------
(* Hashing from the command line: hash_event.py main, and the two codecs *)

StrBogus == <<115, 104, 97, 48>>   \* "sha0", a name hashlib.new does not know

TextFile(text) == [text |-> text]
HashLine(digest) == [tag |-> "HASH", text |-> digest]
SavedLine == [tag |-> "SAVED"]

CliOutcome(exit, error, stdout, hash_file) ==
    [exit |-> exit, error |-> error, stdout |-> stdout, hash_file |-> hash_file]

\* hash_event.py main (lines 101-132): load (load_json_file, lines 27-34), hash,
\* print, and with --write store the digest beside the record. hash_file is the
\* .hash file as it stands before the run; it is taken to be writable.
hash_main(event_file, algorithm, write, hash_file) ==
    LET event_data == load_json_file(event_file) IN
    IF ~event_data.ok THEN CliOutcome(1, event_data.error, <<>>, hash_file)
    ELSE LET digest == hash_event(event_data.value, algorithm) IN
         IF ~digest.ok THEN CliOutcome(1, digest.error, <<>>, hash_file)
         ELSE IF write
         THEN CliOutcome(0, "", <<HashLine(digest.hex), SavedLine>>,
                         TextFile(digest.hex.str \o <<10>>))
         ELSE CliOutcome(0, "", <<HashLine(digest.hex)>>, hash_file)

\* Values of a record's fields: a number, a float that is not finite, a dict, a
\* list, and a dict two levels down (in a list in a dict).
InnerAB == JDict(<< <<StrA, JInt(1)>>, <<StrB, JStr(StrX)>> >>)
ListAB  == JList(<<JInt(1), JStr(StrX)>>)
Nest(v) == JDict(<< <<StrC, JList(<<v>>)>> >>)
CodecValues == {JInt(1), JNonFinite("nan"), InnerAB, ListAB, Nest(InnerAB)}

NestedRecords ==
    {JDict(kvs) : kvs \in {p \in SeqsUpTo(RecordKeys \X CodecValues, MaxFields) : DistinctKeys(p)}}

Reverse(s) == [i \in 1..Len(s) |-> s[Len(s) + 1 - i]]

\* The same value with the items of every dict inserted in the opposite order.
RECURSIVE Mirror(_)
Mirror(v) ==
    IF IsDict(v) THEN JDict(Reverse([i \in 1..Len(v.dict) |-> <<v.dict[i][1], Mirror(v.dict[i][2])>>]))
    ELSE IF IsList(v) THEN JList([i \in 1..Len(v.list) |-> Mirror(v.list[i])])
    ELSE v

\* The value with every list in the opposite order.
RECURSIVE ReverseLists(_)
ReverseLists(v) ==
    IF IsDict(v) THEN JDict([i \in 1..Len(v.dict) |-> <<v.dict[i][1], ReverseLists(v.dict[i][2])>>])
    ELSE IF IsList(v) THEN JList(Reverse([i \in 1..Len(v.list) |-> ReverseLists(v.list[i])]))
    ELSE v

\* Records to set beside a record: the same content inserted in other orders,
\* and the content with its lists turned round.
Variants(r) ==
    {JDict(Reverse(r.dict)), Mirror(r), ReverseLists(r), Mirror(ReverseLists(r))}

HashInput(event_file, other, algorithm, write, hash_file) ==
    [event_file |-> event_file, other |-> other, algorithm |-> algorithm,
     write |-> write, hash_file |-> hash_file]

CodecInputs ==
    UNION {{HashInput(FileOf(r), o, StrSha256, FALSE, Missing) : o \in Variants(r)} :
           r \in NestedRecords}

NonFiniteRecord == JDict(<< <<StrA, JList(<<JNonFinite("inf"), JNonFinite("-inf")>>)>> >>)

CliInputs ==
    {HashInput(f, StoredRecord, algo, w, h) :
        f \in {Missing, Malformed, FileOf(StoredRecord), FileOf(UnhashableRecord),
               FileOf(NonFiniteRecord)},
        algo \in {StrSha256, StrMd5, StrBogus},
        w \in BOOLEAN,
        h \in {Missing, TextFile(StoredHash.str \o <<10>>)}}

InitHash ==
    /\ hash_input \in CodecInputs \cup CliInputs
    /\ cliResult = NotRun
    /\ codecResult = NotRun
    /\ coc_file = Idle /\ procs = Idle
    /\ index_data = Idle /\ errorsIndex = Idle /\ errorsLedger = Idle
    /\ coc = Idle /\ origin = Idle /\ clock = Idle /\ lastCall = Idle
    /\ appendedBy = Idle /\ verifyResult = Idle
    /\ bundle = Idle /\ bundleResult = Idle /\ untampered = Idle
    /\ event_index_file = Idle /\ challenge_index_file = Idle
    /\ events_dir = Idle /\ challenges_dir = Idle
    /\ auditResult = Idle /\ indexResult = Idle

\* A run of hash_event.py on the record file.
RunHashMain ==
    /\ cliResult = NotRun
    /\ cliResult' = hash_main(hash_input.event_file, hash_input.algorithm,
                              hash_input.write, hash_input.hash_file)
    /\ UNCHANGED <<hash_input, codecResult, fileVars, seqVars, cocVars, bundleVars, ledgerVars>>

\* The record of the file and the record beside it, serialized and hashed by
\* hash_event.py, and the record of the file by hash_challenge.py as well.
EncodeRecords ==
    /\ codecResult = NotRun
    /\ "json" \in DOMAIN hash_input.event_file
    /\ LET record == hash_input.event_file.json IN
       codecResult' =
           [bytes           |-> canonical_serialize(record),
            other_bytes     |-> canonical_serialize(hash_input.other),
            challenge_bytes |-> challenge_canonical_serialize(record),
            event_hash      |-> hash_event(record, hash_input.algorithm),
            other_hash      |-> hash_event(hash_input.other, hash_input.algorithm),
            challenge_hash  |-> hash_challenge(record, hash_input.algorithm)]
    /\ UNCHANGED <<hash_input, cliResult, fileVars, seqVars, cocVars, bundleVars, ledgerVars>>

NextHash == RunHashMain \/ EncodeRecords

SpecHash == InitHash /\ [][NextHash]_vars

-----------------------------------------------------------------------------
(* Hashing: what the codec and the command line are required to do *)

CliRan == "exit" \in DOMAIN cliResult
CodecRan == "bytes" \in DOMAIN codecResult
FileRecord == hash_input.event_file.json

Keys(kvs) == {kvs[i][1] : i \in 1..Len(kvs)}

\* Equal as unordered structures: dicts as maps from key to value, whatever the
\* order of insertion, at every depth; lists element by element, in order.
RECURSIVE SameValue(_, _)
SameValue(a, b) ==
    IF IsDict(a) /\ IsDict(b)
    THEN /\ Keys(a.dict) = Keys(b.dict)
         /\ \A i \in 1..Len(a.dict), j \in 1..Len(b.dict) :
                a.dict[i][1] = b.dict[j][1] => SameValue(a.dict[i][2], b.dict[j][2])
    ELSE IF IsList(a) /\ IsList(b)
    THEN /\ Len(a.list) = Len(b.list)
         /\ \A i \in 1..Len(a.list) : SameValue(a.list[i], b.list[i])
    ELSE a = b

\* C21: two records that are equal as unordered structures, at every nesting
\* depth, are serialized to the same bytes and have the same hash; two records
\* that are not, those that differ only in the order of a list's elements among
\* them, are serialized to different bytes.
C21_OrderIndependentListOrderKept ==
    (CodecRan /\ codecResult.bytes.ok /\ codecResult.other_bytes.ok)
        => IF SameValue(FileRecord, hash_input.other)
           THEN /\ codecResult.bytes = codecResult.other_bytes
                /\ codecResult.event_hash = codecResult.other_hash
           ELSE codecResult.bytes.bytes # codecResult.other_bytes.bytes

\* A record of two fields holding a nested dict, and beside it the same content
\* inserted in another order at both depths.
C21_Witness ==
    /\ CodecRan
    /\ Len(FileRecord.dict) = 2
    /\ \E i \in 1..2 : FileRecord.dict[i][2] = Nest(InnerAB)
    /\ hash_input.other = Mirror(FileRecord)
    /\ codecResult.bytes.ok
    /\ codecResult.bytes = codecResult.other_bytes

RECURSIVE HasNonFinite(_)
HasNonFinite(v) ==
    IF IsNonFinite(v) THEN TRUE
    ELSE IF IsDict(v) THEN \E i \in 1..Len(v.dict) : HasNonFinite(v.dict[i][2])
    ELSE IF IsList(v) THEN \E i \in 1..Len(v.list) : HasNonFinite(v.list[i])
    ELSE FALSE

\* C22: serializing a record that holds a float that is not finite (NaN,
\* Infinity, -Infinity), at any depth, fails: no bytes are returned for it.
C22_NonFiniteRejected ==
    (CodecRan /\ HasNonFinite(FileRecord)) => ~codecResult.bytes.ok

\* C23: with an algorithm name that hashlib does not know, hashing bytes that
\* were serialized fails with the unsupported-algorithm error and gives no
\* digest; the command exits with 1, prints no hash line, and leaves the .hash
\* file as it was, --write or not.
C23_UnsupportedAlgorithmNoHash ==
    /\ (CodecRan /\ hash_input.algorithm \notin SupportedAlgorithms /\ codecResult.bytes.ok)
           => codecResult.event_hash = Raised("UnsupportedAlgorithm")
    /\ (CliRan /\ hash_input.algorithm \notin SupportedAlgorithms)
           => /\ cliResult.exit = 1
              /\ cliResult.stdout = <<>>
              /\ cliResult.hash_file = hash_input.hash_file

\* A record that loads and serializes, hashed with --algo sha0 --write.
C23_Witness ==
    /\ CliRan /\ CodecRan
    /\ hash_input.algorithm = StrBogus
    /\ hash_input.write
    /\ hash_input.hash_file = Missing
    /\ codecResult.bytes.ok
    /\ cliResult.error = "UnsupportedAlgorithm"

\* C30: hash_event.py and hash_challenge.py serialize a record to the same
\* bytes or fail with the same error, and hash it under an algorithm name to the
\* same digest or fail with the same error; the digest the command prints is the
\* digest the verifiers recompute with hash_challenge.
C30_CodecsAgree ==
    CodecRan =>
        /\ codecResult.challenge_bytes = codecResult.bytes
        /\ codecResult.challenge_hash = codecResult.event_hash
        /\ CliRan =>
               IF codecResult.challenge_hash.ok
               THEN cliResult.stdout[1] = HashLine(codecResult.challenge_hash.hex)
               ELSE cliResult.stdout = <<>> /\ cliResult.error = codecResult.challenge_hash.error

\* A record that cannot be encoded: both modules raise UnicodeEncodeError.
C30_Witness ==
    /\ CodecRan /\ CliRan
    /\ FileRecord = UnhashableRecord
    /\ codecResult.challenge_hash = Raised("UnicodeEncodeError")
    /\ cliResult.exit = 1

-----------------------------------------------------------------------------
(* Sequence audit: the two implementations side by side *)

\* C29: for every entry list, verify_index.py and verify_ledger_inntegrity.py
\* flag the same positions with the same expected values, entries whose
\* Index_Seq is a numeric string, a number that is no integer, or null included.
C29_SequenceAuditsAgree ==
    (Ran(errorsIndex) /\ Ran(errorsLedger)) => errorsIndex.errors = errorsLedger.errors

-----------------------------------------------------------------------------
(* Chain of custody: the frame of an append *)

EntriesKept ==
    /\ Len(Entries(coc')) \in {Len(Entries(coc)), Len(Entries(coc)) + 1}
    /\ SubSeq(Entries(coc'), 1, Len(Entries(coc))) = Entries(coc)

BundleFileKept ==
    ~IsNull(coc.Evidence_Bundle_File) => coc'.Evidence_Bundle_File = coc.Evidence_Bundle_File

OneEntryAdded ==
    (Called /\ lastCall.raised = "")
        => /\ Len(Entries(coc)) = Len(Entries(lastCall.before)) + 1
           /\ SubSeq(Entries(coc), 1, Len(Entries(coc)) - 1) = Entries(lastCall.before)

\* C26: a successful append_coc_entry leaves every entry that was in the log
\* unchanged and in place and adds exactly one entry at the end; no call removes
\* or changes an entry; an Evidence_Bundle_File that is set is never overwritten.
C26_AppendOnly == [][EntriesKept /\ BundleFileKept]_vars /\ []OneEntryAdded

\* A successful call on a log that had an entry and a bundle file.
C26_Witness ==
    /\ Called
    /\ lastCall.raised = ""
    /\ Len(Entries(lastCall.before)) >= 1
    /\ ~IsNull(lastCall.before.Evidence_Bundle_File)
    /\ Len(Entries(coc)) = Len(Entries(lastCall.before)) + 1

-----------------------------------------------------------------------------
(* Custody log on disk: export_chain_of_custody.py main, two invocations *)

Procs == {1, 2}

\* holder_name given to an invocation: "a" to the first, "b" to the second.
StrHolder(p) == <<96 + p>>

\* isinstance(data, dict): a log, or any other JSON object.
IsLogDict(v) == IsDict(v) \/ "CoC_Version" \in DOMAIN v

LoadedLog(c) == [ok |-> TRUE, coc |-> c]

\* A load that starts a new log whether or not the file exists.
init_or_load_coc_fresh(file) == LoadedLog(NewCoc)

\* A load that does not look at the type of the entries field.
init_or_load_coc_any_entries(file) ==
    IF file = Missing THEN LoadedLog(NewCoc)
    ELSE LET data == load_json_file(file) IN
         IF ~data.ok THEN data
         ELSE IF ~IsLogDict(data.value) \/ "Chain_Of_Custody" \notin DOMAIN data.value
         THEN Raised("MalformedLog")
         ELSE LoadedLog(data.value)

\* init_or_load_coc (lines 46-66), with load_json_file (lines 36-43).
init_or_load_coc(file) ==
    IF file = Missing THEN LoadedLog(NewCoc)
    ELSE LET data == load_json_file(file) IN
         IF ~data.ok THEN data
         ELSE IF ~IsLogDict(data.value) \/ "Chain_Of_Custody" \notin DOMAIN data.value
         THEN Raised("MalformedLog")
         ELSE IF ~IsList(data.value.Chain_Of_Custody) THEN Raised("MalformedLog")
         ELSE LoadedLog(data.value)

\* An invocation of main before its first step: the identifiers of its bundle,
\* no log in memory, no exit code (-1), and what it has seen and done so far.
StartProc(p, event_id, event_hash) ==
    [pc |-> "start", event_id |-> event_id, event_hash |-> event_hash,
     holder |-> JStr(StrHolder(p)), seen |-> NotRun, alone |-> FALSE,
     coc |-> NotRun, exit |-> 0 - 1, error |-> "", wrote |-> FALSE]

\* return 1 after an [ERROR] line, or the exit of an unhandled exception.
Exited(me, code, error) == [me EXCEPT !.pc = "done", !.exit = code, !.error = error]

\* Lines 169-199: the bundle's identifiers are checked, then the log is loaded
\* or initialised. The step records the file as it was read, and whether no
\* other invocation was between its load and the end of its write.
CocLoad(p) ==
    LET me == procs[p] IN
    /\ me.pc = "start"
    /\ procs' = [procs EXCEPT ![p] =
          IF ~Truthy(me.event_id) THEN Exited(me, 1, "NoEventId")
          ELSE IF ~Truthy(me.event_hash) THEN Exited(me, 1, "NoEventHash")
          ELSE LET r == init_or_load_coc(coc_file)
                   saw == [me EXCEPT !.seen = coc_file,
                                     !.alone = \A q \in Procs \ {p} :
                                                   procs[q].pc \in {"start", "done"}]
               IN  IF ~r.ok THEN Exited(saw, 1, r.error)
                   ELSE [saw EXCEPT !.pc = "loaded", !.coc = r.coc]]
    /\ UNCHANGED <<coc_file, hashVars, seqVars, cocVars, bundleVars, ledgerVars>>

\* The call of append_coc_entry that main makes (lines 202-213), within the
\* second ClockStart; list.append on an entries field that is no list raises
\* AttributeError (line 113).
MainAppend(me) ==
    IF ~IsList(me.coc.Chain_Of_Custody) THEN Outcome(me.coc, "AttributeError")
    ELSE append_coc_entry(me.coc, me.event_id, me.event_hash, JStr(StrB1), me.holder,
                          JStr(StrClerk), JStr(StrCreated), JStr(StrLA), JStr(<<>>),
                          ClockStart)

\* An append step that saves the log in memory whatever the call's outcome.
CocAppendAndSave(p) ==
    LET me == procs[p]
        out == MainAppend(me)
    IN  /\ me.pc = "loaded"
        /\ procs' = [procs EXCEPT ![p] =
              IF out.raised # "" THEN [Exited(me, 1, out.raised) EXCEPT !.coc = out.coc]
              ELSE [me EXCEPT !.pc = "appended", !.coc = out.coc]]
        /\ coc_file' = IF out.raised # "" THEN FileOf(out.coc) ELSE coc_file
        /\ UNCHANGED <<hashVars, seqVars, cocVars, bundleVars, ledgerVars>>

\* Lines 201-216: the entry is appended to the log in memory; a mismatch ends
\* the invocation.
CocAppend(p) ==
    LET me == procs[p]
        out == MainAppend(me)
    IN  /\ me.pc = "loaded"
        /\ procs' = [procs EXCEPT ![p] =
              IF out.raised # "" THEN [Exited(me, 1, out.raised) EXCEPT !.coc = out.coc]
              ELSE [me EXCEPT !.pc = "appended", !.coc = out.coc]]
        /\ UNCHANGED <<coc_file, hashVars, seqVars, cocVars, bundleVars, ledgerVars>>

\* Line 220: open(..., "w") truncates the file; until the text is written the
\* file is empty, which is no JSON.
CocTruncate(p) ==
    /\ procs[p].pc = "appended"
    /\ coc_file' = Malformed
    /\ procs' = [procs EXCEPT ![p] = [@ EXCEPT !.pc = "writing", !.wrote = TRUE]]
    /\ UNCHANGED <<hashVars, seqVars, cocVars, bundleVars, ledgerVars>>

\* Lines 221-228: the whole log is written and the file closed (the disk is
\* taken to be writable); json.load reads back what json.dump wrote of the
\* values drawn (str, None, list, dict with str keys).
CocFlush(p) ==
    /\ procs[p].pc = "writing"
    /\ coc_file' = FileOf(procs[p].coc)
    /\ procs' = [procs EXCEPT ![p] = Exited(@, 0, "")]
    /\ UNCHANGED <<hashVars, seqVars, cocVars, bundleVars, ledgerVars>>

\* The custody file before the invocations: absent, no JSON, a JSON value that
\* is no object, an object without the entries field, a log whose entries field
\* is no list, and logs as they are loaded.
CustodyFiles ==
    {Missing, Malformed, FileOf(JList(<<>>)), FileOf(JDict(<<>>)),
     FileOf([NewCoc EXCEPT !.Chain_Of_Custody = JNull]),
     FileOf([NewCoc EXCEPT !.Chain_Of_Custody = JStr(StrX)])}
    \cup {FileOf(c) : c \in LoadedCocs}

\* (Event_ID, Event_Hash) of the bundle an invocation is given.
BundleIdentities ==
    {<<JStr(StrE1), JStr(StrH1)>>, <<JStr(StrE2), JStr(StrH1)>>, <<JStr(StrE1), JStr(StrH2)>>,
     <<JNull, JStr(StrH1)>>, <<JStr(StrE1), JNull>>}

InitFile ==
    /\ coc_file \in CustodyFiles
    /\ \E ids \in [Procs -> BundleIdentities] :
           procs = [p \in Procs |-> StartProc(p, ids[p][1], ids[p][2])]
    /\ hash_input = Idle /\ cliResult = Idle /\ codecResult = Idle
    /\ index_data = Idle /\ errorsIndex = Idle /\ errorsLedger = Idle
    /\ coc = Idle /\ origin = Idle /\ clock = Idle /\ lastCall = Idle
    /\ appendedBy = Idle /\ verifyResult = Idle
    /\ bundle = Idle /\ bundleResult = Idle /\ untampered = Idle
    /\ event_index_file = Idle /\ challenge_index_file = Idle
    /\ events_dir = Idle /\ challenges_dir = Idle
    /\ auditResult = Idle /\ indexResult = Idle

NextFile == \E p \in Procs : CocLoad(p) \/ CocAppend(p) \/ CocTruncate(p) \/ CocFlush(p)

SpecFile == InitFile /\ [][NextFile]_vars

-----------------------------------------------------------------------------
(* Custody log on disk: what main is required to do *)

HasIdentity(me) == Truthy(me.event_id) /\ Truthy(me.event_hash)

\* An existing file that holds JSON whose entries field is absent or no list.
EntriesMalformed(file) ==
    /\ "json" \in DOMAIN file
    /\ \/ "Chain_Of_Custody" \notin DOMAIN file.json
       \/ ~IsList(file.json.Chain_Of_Custody)

\* C25: with no file, init_or_load_coc returns a log with Event_ID and
\* Event_Hash unset and no entries; with a file whose entries field is absent
\* or no list it fails with the malformed-log error and returns no log, so that
\* no invocation ever holds, appends to or writes a log whose entries field is
\* no list.
C25_LoadChecksEntries ==
    \A p \in Procs :
        LET me == procs[p] IN
        /\ (me.pc = "loaded" /\ me.seen = Missing) => me.coc = NewCoc
        /\ (me.seen # NotRun /\ EntriesMalformed(me.seen))
               => /\ me.pc = "done" /\ me.exit = 1 /\ me.error = "MalformedLog"
                  /\ me.coc = NotRun /\ ~me.wrote
        /\ me.coc # NotRun => IsList(me.coc.Chain_Of_Custody)

\* An invocation refused on a file whose entries field is null.
C25_Witness ==
    \E p \in Procs :
        /\ procs[p].seen = FileOf([NewCoc EXCEPT !.Chain_Of_Custody = JNull])
        /\ procs[p].pc = "done" /\ procs[p].exit = 1
        /\ procs[p].error = "MalformedLog"

LoadRefused(me) ==
    me.exit = 1 /\ me.error \in {"MalformedLog", "ValueError"}
AppendRefused(me) ==
    me.exit = 1 /\ me.error \in {"RecordIdentityMismatch", "HashIdentityMismatch"}

FailureLeavesFile ==
    \A p \in Procs :
        (procs[p].pc # "done" /\ procs'[p].pc = "done" /\ procs'[p].exit = 1)
            => coc_file' = coc_file

FailedNeverWrote ==
    \A p \in Procs :
        (LoadRefused(procs[p]) \/ AppendRefused(procs[p])) => ~procs[p].wrote

\* C27: an invocation of main whose append fails with the identity or the hash
\* mismatch, or that finds the existing file malformed, exits with 1 and has not
\* written the file: the step that ends it leaves the file as it is, and it has
\* made no write before.
C27_FailureWritesNothing ==
    [][FailureLeavesFile]_vars /\ []FailedNeverWrote

\* On a log bound to an Event_ID and an Event_Hash, one invocation refused for
\* its hash and the other for its Event_ID.
C27_Witness ==
    \E p, q \in Procs :
        /\ procs[p].error = "HashIdentityMismatch" /\ procs[p].exit = 1
        /\ procs[q].error = "RecordIdentityMismatch" /\ procs[q].exit = 1
        /\ coc_file = procs[p].seen

SeenEntries(me) == IF me.seen = Missing THEN <<>> ELSE Entries(me.seen.json)
NewEntry(me) ==
    CocEntry(JStr(UtcNow(ClockStart)), me.holder, JStr(StrClerk), JStr(StrCreated),
             JStr(StrLA), JNull)
Succeeded(me) == me.pc = "done" /\ me.exit = 0

\* C28: two invocations that both succeed, run one after the other (each loads
\* the file when the other has not begun or has ended), leave a file that holds
\* the entries there were and then both new entries, in the order of the runs;
\* however they are interleaved, the file holds what the last writer had loaded
\* and its new entry.
C28_SequentialKeepsBoth ==
    (\A p \in Procs : Succeeded(procs[p]))
        => /\ \E p \in Procs :
                  Entries(coc_file.json) = SeenEntries(procs[p]) \o <<NewEntry(procs[p])>>
           /\ (\A p \in Procs : procs[p].alone)
                  => \E p, q \in Procs :
                         /\ p # q
                         /\ Entries(coc_file.json)
                                = SeenEntries(procs[p]) \o <<NewEntry(procs[p]), NewEntry(procs[q])>>

\* The lost update: both invocations loaded the same file and both exited with
\* 0, and the file holds one new entry.
C28_Witness ==
    /\ \A p \in Procs : Succeeded(procs[p]) /\ procs[p].wrote
    /\ procs[1].seen = procs[2].seen
    /\ Len(Entries(coc_file.json)) = Len(SeenEntries(procs[1])) + 1

\* Two runs one after the other on a log that had an entry.
C28_SequentialWitness ==
    /\ \A p \in Procs : Succeeded(procs[p]) /\ procs[p].alone
    /\ Len(Entries(coc_file.json)) = 3

-----------------------------------------------------------------------------
(* The verification operations side by side, each on its own data *)

MaxReadOnlyLen == 2   \* longest index list and custody log given here

\* The bundles given here hold a record of at most one field.
ShortRecord(b) == ~IsDict(BundleRecord(b)) \/ Len(BundleRecord(b).dict) <= 1
ShortLog(c) == IsList(c.Chain_Of_Custody) => Len(Entries(c)) <= MaxReadOnlyLen

InitReadOnly ==
    \/ InitVerify /\ ShortLog(coc)
    \/ InitBundle /\ ShortRecord(bundle)
    \/ InitIndex
    \/ InitSeq /\ Len(index_data) <= MaxReadOnlyLen

NextReadOnly ==
    \/ VerifyCoC
    \/ VerifyBundle
    \/ RunLedgerMain
    \/ RunIndexMain
    \/ RunVerifyIndex
    \/ RunVerifyLedger

SpecReadOnly == InitReadOnly /\ [][NextReadOnly]_vars

\* What the verification operations are given: the custody log, the bundle,
\* the index entry lists and files, and the record stores.
VerifiedData ==
    <<coc, bundle, index_data, event_index_file, challenge_index_file, events_dir,
      challenges_dir>>

\* The result in hand is the result of the operation on the data as they are.
Repeatable ==
    /\ Verified => verifyResult = verify_chain_of_custody(coc)
    /\ BundleVerified => bundleResult = VerifyBundleMain(bundle)
    /\ LedgerRan => auditResult = ledger_main(event_index_file, challenge_index_file,
                                               events_dir, challenges_dir)
    /\ IndexRan => indexResult = index_main(event_index_file, events_dir, StrSha256)
    /\ Ran(errorsIndex) => errorsIndex.errors = verify_index_sequence(index_data)
    /\ Ran(errorsLedger) => errorsLedger.errors = ledger_verify_index_sequence(index_data)

=============================================================================
